---------------------------- MODULE Spec2Model ----------------------------
(***************************************************************************)
(* Model of the Chord global scheduler (llumnix_part/global_scheduler):    *)
(*   global_scheduler_Chord.py   GlobalScheduler (membership, telemetry,   *)
(*                               redispatch planner)                       *)
(*   dispatch_policy_Chord.py    Flood, Balanced, Load, Queue, RoundRobin, *)
(*                               Loadv2                                    *)
(*   migration_policy_Chord.py   Urgency, Balanced, Defrag                 *)
(*                                                                         *)
(* Spec            the GlobalScheduler under scale_up / scale_down /       *)
(*                 update_instance_infos                                   *)
(* SpecRR          RoundRobin.dispatch under membership changes            *)
(* SpecPlanner     derive_redispatching_plans, one loop pass per step      *)
(* SpecLoadv2      Loadv2.dispatch                                         *)
(* SpecUrgency     get_redispatch_dst_instance (Urgency.get_dst_instance)  *)
(* SpecUrgencySrc  get_redispatch_src_instances (Urgency.get_src_instances)*)
(* SpecBalanced    Balanced.pair_migration                                 *)
(* SpecDispatch    GlobalScheduler.dispatch under each dispatch policy     *)
(* SpecTopK        Load.dispatch / Queue.dispatch on lists in any order    *)
(* SpecPairMigration  Balanced / Defrag pair_migration on lists in any     *)
(*                 order                                                   *)
(* Python dicts keyed by instance id are functions whose DOMAIN is the key *)
(* set; Python lists are sequences.                                        *)
(***************************************************************************)
EXTENDS Integers, Sequences, FiniteSets, TLC

VARIABLES
    \* GlobalScheduler fields (global_scheduler_Chord.py:32-34)
    num_instances, instance_id_set, instance_info,
    \* what each sub-scheduler has been handed by the GlobalScheduler:
    \* the key set of the table passed by the latest update_instance_infos
    \* call, the number of add_instance minus remove_instance calls per id,
    \* the latest add_instance / remove_instance call with the entry (as a
    \* set: empty when there is none) the table just passed held for its id
    pushed, registered, told,
    \* the latest GlobalScheduler call (history)
    last,
    \* RoundRobin.prev_instance_idx and the dispatch sub-scheduler's
    \* instance_num_requests map, whose keys RoundRobin.dispatch sorts
    prev_instance_idx, instance_num_requests,
    \* history of the RoundRobin calls made since the key set last changed:
    \* the cursor before the first of them, their number, the number of
    \* times each id was returned, the value the latest call returned
    rr_start, rr_calls, rr_count, rr_ret,
    \* derive_redispatching_plans: its arguments (candidate_instances is
    \* the caller's dict, changed in place), its locals, the place it has
    \* reached, the choices it has made so far (history) and the value
    \* candidate_instances had when it was called (history)
    master_instance_id, global_waiting_requests, candidate_instances,
    redispatch_plans, available_instance_ids, req_idx, planner_pc, choices,
    candidates_at_call,
    \* a call of one of the stateless policies (Loadv2.dispatch,
    \* Urgency.get_dst_instance, Balanced.pair_migration): its arguments, and
    \* what it returned (<<>> until it has returned, then <<value>>)
    policy_call, policy_ret,
    \* GlobalScheduler.dispatch: the configuration the scheduler was built
    \* with, the instance table the dispatch sub-scheduler holds from the
    \* latest update_instance_infos call made on it, and the outcome of the
    \* latest dispatch call (<<>> before the first)
    global_scheduler_config, dispatch_view, dispatch_ret

gs_vars == <<num_instances, instance_id_set, instance_info, pushed, registered, told, last>>

rr_vars == <<prev_instance_idx, instance_num_requests, rr_start, rr_calls, rr_count, rr_ret>>

planner_vars == <<master_instance_id, global_waiting_requests, candidate_instances,
                  redispatch_plans, available_instance_ids, req_idx, planner_pc, choices,
                  candidates_at_call>>

policy_vars == <<policy_call, policy_ret>>

dispatch_vars == <<global_scheduler_config, dispatch_view, dispatch_ret>>

vars == <<gs_vars, rr_vars, planner_vars, policy_vars, dispatch_vars>>

--------------------------------------------------------------------------
(* Bounds *)

\* longest id list handed to scale_up / scale_down
MaxBatch == 2
\* longest snapshot list handed to update_instance_infos
MaxSnapshots == 2
\* largest num_waiting_requests a telemetry snapshot reports
MaxWaiting == 1
\* most RoundRobin dispatch calls counted between two membership changes
MaxCalls == 7
\* derive_redispatching_plans: largest free and used block counts of a
\* candidate, largest n_blocks of a request, longest request list
MaxFree == 3
MaxUsed == 3
MaxNBlocks == 2
MaxRequests == 2
\* Loadv2.dispatch: largest num_total_gpu_blocks of an instance
MaxTotal == 2
\* Urgency.get_dst_instance: largest num_watermark_blocks and
\* num_running_requests of an instance
MaxWatermark == 1
MaxRunning == 1
\* Balanced.pair_migration: largest finite load metric, and the
\* migrate_out_load_threshold the policy is built with
MaxMetric == 2
MigrateOutLoadThreshold == 1
\* GlobalScheduler.dispatch: largest topk_random_dispatch the scheduler is
\* configured with
MaxTopK == 2

--------------------------------------------------------------------------
(* Generic helpers *)

None == "None"

SeqsUpTo(S, n) == UNION {[1..k -> S] : k \in 0..n}

NonEmptySeqsUpTo(S, n) == UNION {[1..k -> S] : k \in 1..n}

Min2(a, b) == IF a <= b THEN a ELSE b

Range(s) == {s[i] : i \in DOMAIN s}

\* d[k] = v  on a dict
DictPut(d, k, v) == [x \in DOMAIN d \cup {k} |-> IF x = k THEN v ELSE d[x]]

\* del d[k]
DictDel(d, k) == [x \in DOMAIN d \ {k} |-> d[x]]

EmptyDict == [x \in {} |-> None]

--------------------------------------------------------------------------
(* Instance ids and InstanceInfo *)

InstanceIds == {"a", "b", "c"}

\* Python's order on these strings
IdOrder == <<"a", "b", "c">>

IdRank(id) == CHOOSE k \in DOMAIN IdOrder : IdOrder[k] = id

\* the ids the membership calls of Spec draw from
FleetIds == {"a", "b"}

\* the three sub-schedulers _add_instance / _remove_instance walk
Schedulers == {"dispatch_scheduler", "migration_scheduler", "scaling_scheduler"}

\* ScalingScheduler.get_empty_instance_info: a record with every counter
\* zero and no id yet
get_empty_instance_info == [instance_id |-> None, num_waiting_requests |-> 0]

\* a telemetry snapshot
TelemetryInfos ==
    [instance_id : FleetIds, num_waiting_requests : 0..MaxWaiting]

--------------------------------------------------------------------------
(* GlobalScheduler: membership and telemetry                               *)

Self ==
    [num_instances   |-> num_instances,
     instance_id_set |-> instance_id_set,
     instance_info   |-> instance_info,
     pushed          |-> pushed,
     registered      |-> registered,
     told            |-> told]

\* GlobalScheduler.__init__
InitSelf ==
    [num_instances   |-> 0,
     instance_id_set |-> {},
     instance_info   |-> EmptyDict,
     pushed          |-> [s \in Schedulers |-> {}],
     registered      |-> [s \in Schedulers |-> [i \in FleetIds |-> 0]],
     told            |-> [s \in Schedulers |->
                            [op |-> None, instance_id |-> None, entry |-> {}]]]

\* for scheduler in (...): scheduler.update_instance_infos(self.instance_info);
\*                         scheduler.add_instance / remove_instance(instance_id)
\* The table does not change inside the loop, so the three sub-schedulers
\* are handed the same table.
NotifySchedulers(self, op, delta, instance_id) ==
    [self EXCEPT
        !.pushed = [s \in Schedulers |-> DOMAIN self.instance_info],
        !.registered = [s \in Schedulers |->
                          [@[s] EXCEPT ![instance_id] = @ + delta]],
        !.told = [s \in Schedulers |->
                    [op |-> op, instance_id |-> instance_id,
                     entry |-> {self.instance_info[i] :
                                  i \in {instance_id} \cap DOMAIN self.instance_info}]]]

\* GlobalScheduler._add_instance
add_instance(self, instance_id, instance_args) ==
    LET s1 == [self EXCEPT !.instance_id_set = @ \cup {instance_id}]
        s2 == [s1 EXCEPT !.num_instances = Cardinality(s1.instance_id_set)]
    IN  NotifySchedulers(s2, "add_instance", 1, instance_id)

RemoveInstanceStaleCount(self, instance_id) ==
    LET s1 == [self EXCEPT !.instance_id_set = @ \ {instance_id}]
    IN  NotifySchedulers(s1, "remove_instance", -1, instance_id)

\* GlobalScheduler._remove_instance
remove_instance(self, instance_id) ==
    LET s1 == [self EXCEPT !.instance_id_set = @ \ {instance_id}]
        s2 == [s1 EXCEPT !.num_instances = Cardinality(s1.instance_id_set)]
    IN  NotifySchedulers(s2, "remove_instance", -1, instance_id)

ScaleUpOneUnguarded(self, ins_id, ins_args) ==
    LET new_intance_info ==
            [get_empty_instance_info EXCEPT !.instance_id = ins_id]
        s1 == [self EXCEPT !.instance_info = DictPut(@, ins_id, new_intance_info)]
    IN  add_instance(s1, ins_id, ins_args)

ScaleUpOneNotifyFirst(self, ins_id, ins_args) ==
    IF ins_id \notin self.instance_id_set
    THEN LET new_intance_info ==
                 [get_empty_instance_info EXCEPT !.instance_id = ins_id]
             s1 == add_instance(self, ins_id, ins_args)
         IN  [s1 EXCEPT !.instance_info = DictPut(@, ins_id, new_intance_info)]
    ELSE self

\* the body of scale_up's loop, for one (ins_id, ins_args) pair
ScaleUpOne(self, ins_id, ins_args) ==
    IF ins_id \notin self.instance_id_set
    THEN LET new_intance_info ==
                 [get_empty_instance_info EXCEPT !.instance_id = ins_id]
             s1 == [self EXCEPT !.instance_info = DictPut(@, ins_id, new_intance_info)]
         IN  add_instance(s1, ins_id, ins_args)
    ELSE self

RECURSIVE ScaleUpLoopEveryId(_, _, _, _)
ScaleUpLoopEveryId(self, instance_ids, instance_args, i) ==
    IF i > Len(instance_ids)
    THEN self
    ELSE ScaleUpLoopEveryId(ScaleUpOne(self, instance_ids[i], None),
                            instance_ids, instance_args, i + 1)

\* for ins_id, ins_args in zip(instance_ids, instance_args): the loop stops
\* at the end of the shorter list
RECURSIVE ScaleUpLoop(_, _, _, _)
ScaleUpLoop(self, instance_ids, instance_args, i) ==
    IF i > Min2(Len(instance_ids), Len(instance_args))
    THEN self
    ELSE ScaleUpLoop(ScaleUpOne(self, instance_ids[i], instance_args[i]),
                     instance_ids, instance_args, i + 1)

\* GlobalScheduler.scale_up; instance_id is the id list (a bare string is
\* first wrapped into a one-element list); zip stops at the shorter list.
\* The state after the call; the value returned is its num_instances.
scale_up(self, instance_id, instance_args) ==
    ScaleUpLoop(self, instance_id, instance_args, 1)

\* the body of scale_down's loop, for one ins_id
ScaleDownOne(self, ins_id) ==
    IF ins_id \in self.instance_id_set
    THEN LET s1 == IF ins_id \in DOMAIN self.instance_info
                   THEN [self EXCEPT !.instance_info = DictDel(@, ins_id)]
                   ELSE self
         IN  remove_instance(s1, ins_id)
    ELSE self

RECURSIVE ScaleDownLoop(_, _, _)
ScaleDownLoop(self, instance_ids, i) ==
    IF i > Len(instance_ids)
    THEN self
    ELSE ScaleDownLoop(ScaleDownOne(self, instance_ids[i]), instance_ids, i + 1)

\* GlobalScheduler.scale_down
scale_down(self, instance_id) == ScaleDownLoop(self, instance_id, 1)

UpdateOneUnfiltered(self, info) ==
    [self EXCEPT !.instance_info = DictPut(@, info.instance_id, info)]

\* the body of update_instance_infos's loop, for one snapshot
UpdateOne(self, info) ==
    IF info.instance_id \in self.instance_id_set
    THEN [self EXCEPT !.instance_info = DictPut(@, info.instance_id, info)]
    ELSE self

RECURSIVE UpdateLoop(_, _, _)
UpdateLoop(self, instance_infos, i) ==
    IF i > Len(instance_infos)
    THEN self
    ELSE UpdateLoop(UpdateOne(self, instance_infos[i]), instance_infos, i + 1)

\* GlobalScheduler.update_instance_infos
update_instance_infos(self, instance_infos) == UpdateLoop(self, instance_infos, 1)

--------------------------------------------------------------------------
(* Actions of Spec *)

SetSelf(s) ==
    /\ num_instances' = s.num_instances
    /\ instance_id_set' = s.instance_id_set
    /\ instance_info' = s.instance_info
    /\ pushed' = s.pushed
    /\ registered' = s.registered
    /\ told' = s.told

\* what `last` keeps of a call: the operation, the ids named in it, the
\* length of instance_args, the value the call returned, and whether the
\* same call was made just before
CallRecord(op, ids, nargs, ret) ==
    LET c == [op |-> op, ids |-> ids, nargs |-> nargs]
    IN  [op |-> op, ids |-> ids, nargs |-> nargs, ret |-> ret,
         repeated |-> (c = [op |-> last.op, ids |-> last.ids, nargs |-> last.nargs])]

\* line 176: scale_up returns self.num_instances as the loop left it
ScaleUpReturn(self) == self.num_instances

ScaleUpCall(ids, args) ==
    /\ SetSelf(scale_up(Self, ids, args))
    /\ UNCHANGED <<rr_vars, planner_vars, policy_vars, dispatch_vars>>
    /\ last' = CallRecord("scale_up", ids, Len(args), ScaleUpReturn(scale_up(Self, ids, args)))

ScaleUp ==
    \E ids \in NonEmptySeqsUpTo(FleetIds, MaxBatch) :
        \E args \in SeqsUpTo({"instance_args"}, MaxBatch) :
            ScaleUpCall(ids, args)

ScaleDownCall(ids) ==
    /\ SetSelf(scale_down(Self, ids))
    /\ UNCHANGED <<rr_vars, planner_vars, policy_vars, dispatch_vars>>
    /\ last' = CallRecord("scale_down", ids, 0, scale_down(Self, ids).num_instances)

ScaleDown ==
    \E ids \in NonEmptySeqsUpTo(FleetIds, MaxBatch) : ScaleDownCall(ids)

UpdateCall(infos) ==
    /\ SetSelf(update_instance_infos(Self, infos))
    /\ UNCHANGED <<rr_vars, planner_vars, policy_vars, dispatch_vars>>
    /\ last' = CallRecord("update_instance_infos",
                          [i \in DOMAIN infos |-> infos[i].instance_id], 0, None)

UpdateInstanceInfos ==
    \E infos \in NonEmptySeqsUpTo(TelemetryInfos, MaxSnapshots) : UpdateCall(infos)

GSInit ==
    /\ num_instances = InitSelf.num_instances
    /\ instance_id_set = InitSelf.instance_id_set
    /\ instance_info = InitSelf.instance_info
    /\ pushed = InitSelf.pushed
    /\ registered = InitSelf.registered
    /\ told = InitSelf.told
    /\ last = [op |-> None, ids |-> <<>>, nargs |-> 0, ret |-> None, repeated |-> FALSE]

\* RoundRobin.prev_instance_idx = -1 and an empty instance_num_requests
RRInit ==
    /\ prev_instance_idx = -1
    /\ instance_num_requests = EmptyDict
    /\ rr_start = -1
    /\ rr_calls = 0
    /\ rr_count = [id \in InstanceIds |-> 0]
    /\ rr_ret = None

\* no derive_redispatching_plans call under way
PlannerIdle ==
    /\ master_instance_id = None
    /\ global_waiting_requests = <<>>
    /\ candidate_instances = EmptyDict
    /\ redispatch_plans = EmptyDict
    /\ available_instance_ids = <<>>
    /\ req_idx = 0
    /\ planner_pc = "idle"
    /\ choices = <<>>
    /\ candidates_at_call = EmptyDict

\* no dispatch call made, no configuration under study
DispatchIdle ==
    /\ global_scheduler_config = [dispatch_policy |-> None]
    /\ dispatch_view = EmptyDict
    /\ dispatch_ret = <<>>

\* no policy call under way
PolicyIdle ==
    /\ policy_call = [policy |-> None]
    /\ policy_ret = <<>>
    /\ DispatchIdle

Init == GSInit /\ RRInit /\ PlannerIdle /\ PolicyIdle

Next ==
    \/ ScaleUp
    \/ ScaleDown
    \/ UpdateInstanceInfos

Spec == Init /\ [][Next]_vars


--------------------------------------------------------------------------
(* RoundRobin dispatch (dispatch_policy_Chord.py) and SpecRR               *)

\* sorted(ids): the ids of S in Python's string order
RECURSIVE sorted_ids(_)
sorted_ids(S) ==
    IF S = {} THEN <<>>
    ELSE LET first == CHOOSE x \in S : \A y \in S : IdRank(x) <= IdRank(y)
         IN  <<first>> \o sorted_ids(S \ {first})

RoundRobinCursorNotStored(prev, num_requests) ==
    LET all_instance_ids == sorted_ids(DOMAIN num_requests)
        cur_instance_idx == (prev + 1) % Len(all_instance_ids)
    IN  [target_instance_id |-> all_instance_ids[cur_instance_idx + 1],
         prev_instance_idx  |-> prev]

RoundRobinStoresNext(prev, num_requests) ==
    LET all_instance_ids == sorted_ids(DOMAIN num_requests)
        cur_instance_idx == (prev + 1) % Len(all_instance_ids)
    IN  [target_instance_id |-> all_instance_ids[cur_instance_idx + 1],
         prev_instance_idx  |-> (cur_instance_idx + 1) % Len(all_instance_ids)]

\* RoundRobin.dispatch on a non-empty map: the id returned and the cursor
\* stored (Python lists are 0-based, sequences 1-based)
RoundRobin_dispatch(prev, num_requests) ==
    LET all_instance_ids == sorted_ids(DOMAIN num_requests)
        cur_instance_idx == (prev + 1) % Len(all_instance_ids)
    IN  [target_instance_id |-> all_instance_ids[cur_instance_idx + 1],
         prev_instance_idx  |-> cur_instance_idx]

\* one RoundRobin dispatch call; on an empty map the modulo by
\* len(all_instance_ids) = 0 raises ZeroDivisionError before anything is
\* stored
RRDispatch ==
    /\ rr_calls < MaxCalls
    /\ IF DOMAIN instance_num_requests = {}
       THEN /\ rr_ret' = "ZeroDivisionError"
            /\ UNCHANGED <<prev_instance_idx, rr_start, rr_calls, rr_count>>
       ELSE LET r == RoundRobin_dispatch(prev_instance_idx, instance_num_requests)
            IN  /\ rr_ret' = r.target_instance_id
                /\ prev_instance_idx' = r.prev_instance_idx
                /\ rr_calls' = rr_calls + 1
                /\ rr_count' = [rr_count EXCEPT ![r.target_instance_id] = @ + 1]
                /\ UNCHANGED rr_start
    /\ UNCHANGED <<instance_num_requests, gs_vars, planner_vars, policy_vars, dispatch_vars>>

\* a membership change starts a new window of calls; the cursor stays
RRNewWindow ==
    /\ rr_start' = prev_instance_idx
    /\ rr_calls' = 0
    /\ rr_count' = [id \in InstanceIds |-> 0]
    /\ rr_ret' = None
    /\ UNCHANGED <<prev_instance_idx, gs_vars, planner_vars, policy_vars, dispatch_vars>>

\* the dispatch sub-scheduler's add_instance: a new key with no requests
RRAddInstance ==
    \E id \in InstanceIds \ DOMAIN instance_num_requests :
        /\ instance_num_requests' = DictPut(instance_num_requests, id, 0)
        /\ RRNewWindow

\* the dispatch sub-scheduler's remove_instance: the key is dropped
RRRemoveInstance ==
    \E id \in DOMAIN instance_num_requests :
        /\ instance_num_requests' = DictDel(instance_num_requests, id)
        /\ RRNewWindow

RRNext ==
    \/ RRDispatch
    \/ RRAddInstance
    \/ RRRemoveInstance

SpecRR == Init /\ [][RRNext]_vars

--------------------------------------------------------------------------
(* GlobalScheduler.derive_redispatching_plans and SpecPlanner              *)

\* the keys of a dict, in its iteration order (the ids are inserted in
\* IdOrder)
DictKeys(d) == SelectSeq(IdOrder, LAMBDA id : id \in DOMAIN d)

\* [x for x in s if Test(x)]
Filter(s, Test(_)) == SelectSeq(s, Test)

\* max(...) of a key over a non-empty list
MaxOver(s, Key(_)) ==
    CHOOSE v \in {Key(s[i]) : i \in DOMAIN s} :
        \A i \in DOMAIN s : Key(s[i]) <= v

\* min(s, key = Key): the first element of the list with the least key
MinByKey(s, Key(_)) ==
    LET k == CHOOSE i \in DOMAIN s :
                 /\ \A j \in DOMAIN s : Key(s[i]) <= Key(s[j])
                 /\ \A j \in 1..(i - 1) : Key(s[j]) > Key(s[i])
    IN  s[k]

\* [id for id, (free_blocks, _) in candidate_instances.items() if free_blocks > 0]
AvailableIds(cands) == Filter(DictKeys(cands), LAMBDA id : cands[id][1] > 0)

\* the planner's state as a record
PlannerState ==
    [candidate_instances    |-> candidate_instances,
     redispatch_plans       |-> redispatch_plans,
     available_instance_ids |-> available_instance_ids,
     req_idx                |-> req_idx,
     planner_pc             |-> planner_pc,
     choices                |-> choices]

\* lines 95-102: the plan starts empty; with no candidate holding a free
\* block the empty plan is returned at once
PlannerEnter(st, requests) ==
    LET avail == AvailableIds(st.candidate_instances)
    IN  [st EXCEPT
            !.redispatch_plans = EmptyDict,
            !.available_instance_ids = avail,
            !.req_idx = 1,
            !.choices = <<>>,
            !.planner_pc = IF Len(avail) = 0 THEN "returned"
                           ELSE IF Len(requests) = 0 THEN "post"
                           ELSE "loop"]

ChooseTargetFallbackOnly(cands, avail, filtered, n_blocks, max_used_blocks) ==
    [id |-> MinByKey(filtered,
               LAMBDA id : cands[id][2] + n_blocks - max_used_blocks),
     branch |-> "fallback"]

\* lines 111-123: the target of a request that some candidate can hold
ChooseTarget(cands, avail, filtered, n_blocks, max_used_blocks) ==
    LET filtered_dst_instances_II ==
            Filter(avail, LAMBDA id : max_used_blocks - cands[id][2] - n_blocks > 0)
    IN  IF Len(filtered_dst_instances_II) # 0
        THEN [id |-> MinByKey(filtered_dst_instances_II,
                        LAMBDA id : max_used_blocks - (cands[id][2] + n_blocks)),
              branch |-> "II"]
        ELSE [id |-> MinByKey(filtered,
                        LAMBDA id : cands[id][2] + n_blocks - max_used_blocks),
              branch |-> "fallback"]

PlannerContinue(st, requests) ==
    [st EXCEPT !.req_idx = @ + 1,
               !.planner_pc = IF st.req_idx = Len(requests) THEN "post" ELSE "loop"]

\* lines 107-109: no candidate can hold the request: break
PlannerBreak(st, requests) == [st EXCEPT !.planner_pc = "post"]

AppendToPlanMasterToo(plans, target_dst_instance_id, master, request) ==
    LET old == IF target_dst_instance_id \in DOMAIN plans
               THEN plans[target_dst_instance_id] ELSE <<>>
    IN  DictPut(plans, target_dst_instance_id, Append(old, request))

\* lines 125-131: the request joins the target's list unless the target is
\* the master
AppendToPlan(plans, target_dst_instance_id, master, request) ==
    IF target_dst_instance_id # master
    THEN LET old == IF target_dst_instance_id \in DOMAIN plans
                    THEN plans[target_dst_instance_id] ELSE <<>>
         IN  DictPut(plans, target_dst_instance_id, Append(old, request))
    ELSE plans

CommitFreeOnly(cands, target_dst_instance_id, n_blocks) ==
    [cands EXCEPT ![target_dst_instance_id] = <<@[1] - n_blocks, @[2]>>]

\* lines 133-134: the target's free blocks go down and its used blocks go
\* up by the request's n_blocks
CommitRequest(cands, target_dst_instance_id, n_blocks) ==
    [cands EXCEPT ![target_dst_instance_id] = <<@[1] - n_blocks, @[2] + n_blocks>>]

\* lines 104-139: one pass of the loop, for the request at req_idx
PlannerIterate(st, master, requests) ==
    LET request == requests[st.req_idx]
        cands == st.candidate_instances
        avail == st.available_instance_ids
        max_used_blocks == MaxOver(avail, LAMBDA id : cands[id][2])
        filtered_dst_instances ==
            Filter(avail, LAMBDA id : cands[id][1] - request.n_blocks > 0)
    IN  IF Len(filtered_dst_instances) = 0
        THEN PlannerBreak(st, requests)
        ELSE LET target == ChooseTarget(cands, avail, filtered_dst_instances,
                                        request.n_blocks, max_used_blocks)
                 target_dst_instance_id == target.id
                 plans1 == AppendToPlan(st.redispatch_plans, target_dst_instance_id,
                                        master, request)
                 cands1 == CommitRequest(cands, target_dst_instance_id, request.n_blocks)
                 avail1 == AvailableIds(cands1)
                 choice ==
                     [request_id  |-> request.request_id,
                      n_blocks    |-> request.n_blocks,
                      dst         |-> target_dst_instance_id,
                      free_before |-> cands[target_dst_instance_id][1],
                      branch      |-> target.branch,
                      admissible_existed |->
                          \E id \in DOMAIN cands : cands[id][1] >= request.n_blocks]
             IN  [st EXCEPT
                     !.candidate_instances = cands1,
                     !.redispatch_plans = plans1,
                     !.available_instance_ids = avail1,
                     !.choices = Append(@, choice),
                     !.req_idx = @ + 1,
                     !.planner_pc = IF Len(avail1) = 0 \/ st.req_idx = Len(requests)
                                    THEN "post" ELSE "loop"]

\* GlobalScheduler.post_process: the set of the requests' ids
post_process(target_requests) ==
    {target_requests[i].request_id : i \in DOMAIN target_requests}

\* lines 141-146: every list of the plan becomes a set of request ids, and
\* the plan is returned
PlannerReturn(st) ==
    [st EXCEPT
        !.redispatch_plans = [dst \in DOMAIN @ |-> post_process(@[dst])],
        !.planner_pc = "returned"]

\* the call from entry to return
RECURSIVE PlannerRun(_, _, _)
PlannerRun(st, master, requests) ==
    IF st.planner_pc = "called" THEN PlannerRun(PlannerEnter(st, requests), master, requests)
    ELSE IF st.planner_pc = "loop"
         THEN PlannerRun(PlannerIterate(st, master, requests), master, requests)
    ELSE IF st.planner_pc = "post" THEN PlannerRun(PlannerReturn(st), master, requests)
    ELSE st

\* derive_redispatching_plans: the plan it returns
derive_redispatching_plans(master, requests, cands) ==
    PlannerRun([candidate_instances    |-> cands,
                redispatch_plans       |-> EmptyDict,
                available_instance_ids |-> <<>>,
                req_idx                |-> 0,
                planner_pc             |-> "called",
                choices                |-> <<>>],
               master, requests).redispatch_plans

SetPlanner(st) ==
    /\ candidate_instances' = st.candidate_instances
    /\ redispatch_plans' = st.redispatch_plans
    /\ available_instance_ids' = st.available_instance_ids
    /\ req_idx' = st.req_idx
    /\ planner_pc' = st.planner_pc
    /\ choices' = st.choices

\* the ids of the candidate map
PlannerIds == {"a", "b"}

\* candidate_instances as get_redispatch_dst_infos builds it:
\* id -> [free blocks after the watermark, used blocks], both >= 0 for an
\* InstanceInfo that satisfies its invariants
CandidateMaps == [PlannerIds -> (0..MaxFree) \X (0..MaxUsed)]

\* request lists with pairwise distinct request ids
RequestLists ==
    {[i \in DOMAIN nb |-> [request_id |-> i, n_blocks |-> nb[i]]] :
        nb \in SeqsUpTo(1..MaxNBlocks, MaxRequests)}

\* a call of derive_redispatching_plans with its three arguments
PlannerInit ==
    /\ master_instance_id \in InstanceIds
    /\ global_waiting_requests \in RequestLists
    /\ candidate_instances \in CandidateMaps
    /\ redispatch_plans = EmptyDict
    /\ available_instance_ids = <<>>
    /\ req_idx = 0
    /\ planner_pc = "called"
    /\ choices = <<>>
    /\ candidates_at_call = candidate_instances

PlannerStart ==
    /\ planner_pc = "called"
    /\ SetPlanner(PlannerEnter(PlannerState, global_waiting_requests))
    /\ UNCHANGED <<master_instance_id, global_waiting_requests, candidates_at_call,
                   gs_vars, rr_vars, policy_vars, dispatch_vars>>

PlannerLoop ==
    /\ planner_pc = "loop"
    /\ SetPlanner(PlannerIterate(PlannerState, master_instance_id,
                                 global_waiting_requests))
    /\ UNCHANGED <<master_instance_id, global_waiting_requests, candidates_at_call,
                   gs_vars, rr_vars, policy_vars, dispatch_vars>>

PlannerFinish ==
    /\ planner_pc = "post"
    /\ SetPlanner(PlannerReturn(PlannerState))
    /\ UNCHANGED <<master_instance_id, global_waiting_requests, candidates_at_call,
                   gs_vars, rr_vars, policy_vars, dispatch_vars>>

PlannerNext ==
    \/ PlannerStart
    \/ PlannerLoop
    \/ PlannerFinish

InitPlanner == GSInit /\ RRInit /\ PlannerInit /\ PolicyIdle

SpecPlanner == InitPlanner /\ [][PlannerNext]_vars

--------------------------------------------------------------------------
(* Loadv2.dispatch (dispatch_policy_Chord.py) and SpecLoadv2               *)

\* sorted(s, key = Key)[0]: the first element of the list with the least key
SortedHead(s, Key(_)) == MinByKey(s, Key)

\* sorted(s, key = Key, reverse = True)[0]: a reversed sort keeps the
\* order of equal keys, so this is the first element with the largest key
SortedHeadReverse(s, Key(_)) ==
    LET k == CHOOSE i \in DOMAIN s :
                 /\ \A j \in DOMAIN s : Key(s[i]) >= Key(s[j])
                 /\ \A j \in 1..(i - 1) : Key(s[j]) < Key(s[i])
    IN  s[k]

Loadv2LoosestFit(available_instance_infos, req_n_blocks, max_used_blocks) ==
    LET Slack(x) == max_used_blocks - x.num_watermark_blocks
                       - x.num_used_gpu_blocks - req_n_blocks
        filtered_dst_instance_infos_II ==
            Filter(available_instance_infos, LAMBDA x : Slack(x) >= 0)
    IN  IF Len(filtered_dst_instance_infos_II) > 0
        THEN [instance_id |->
                 SortedHeadReverse(filtered_dst_instance_infos_II, Slack).instance_id,
              branch |-> "System is not overloaded at dispatching."]
        ELSE [instance_id |->
                 SortedHead(available_instance_infos,
                     LAMBDA x : x.num_used_gpu_blocks + req_n_blocks
                                   + x.num_watermark_blocks - max_used_blocks).instance_id,
              branch |-> "The system is growing steadily."]

\* lines 75-84: no instance has a waiting request
Loadv2NotOverloaded(available_instance_infos, req_n_blocks, max_used_blocks) ==
    LET Slack(x) == max_used_blocks - x.num_watermark_blocks
                       - x.num_used_gpu_blocks - req_n_blocks
        filtered_dst_instance_infos_II ==
            Filter(available_instance_infos, LAMBDA x : Slack(x) >= 0)
    IN  IF Len(filtered_dst_instance_infos_II) > 0
        THEN [instance_id |->
                 SortedHead(filtered_dst_instance_infos_II, Slack).instance_id,
              branch |-> "System is not overloaded at dispatching."]
        ELSE [instance_id |->
                 SortedHead(available_instance_infos,
                     LAMBDA x : x.num_used_gpu_blocks + req_n_blocks
                                   + x.num_watermark_blocks - max_used_blocks).instance_id,
              branch |-> "The system is growing steadily."]

Loadv2OverloadedIdleFirst(available_instance_infos, filtered_dst_instance_infos) ==
    [instance_id |->
        SortedHeadReverse(IF Len(filtered_dst_instance_infos) > 0
                          THEN filtered_dst_instance_infos
                          ELSE available_instance_infos,
            LAMBDA x : x.num_waiting_requests).instance_id,
     branch |-> "System is overloaded. Dispatch to the logical scheduling center."]

\* lines 85-90: some instance has a waiting request; the sort is over
\* available_instance_infos, not over the filtered list
Loadv2Overloaded(available_instance_infos, filtered_dst_instance_infos) ==
    [instance_id |->
        SortedHeadReverse(available_instance_infos,
            LAMBDA x : x.num_waiting_requests).instance_id,
     branch |-> "System is overloaded. Dispatch to the logical scheduling center."]

\* Loadv2.dispatch: the instance_id returned and the branch taken (the
\* branch is the message the code logs); max() of an empty list raises
\* ValueError
Loadv2_dispatch(available_instance_infos, req_n_blocks) ==
    IF Len(available_instance_infos) = 0
    THEN [instance_id |-> None, branch |-> "ValueError"]
    ELSE
    LET max_used_blocks ==
            MaxOver(available_instance_infos, LAMBDA x : x.num_used_gpu_blocks)
        filtered_dst_instance_infos ==
            Filter(available_instance_infos, LAMBDA x : x.num_waiting_requests = 0)
    IN  IF Len(filtered_dst_instance_infos) = Len(available_instance_infos)
        THEN Loadv2NotOverloaded(available_instance_infos, req_n_blocks, max_used_blocks)
        ELSE Loadv2Overloaded(available_instance_infos, filtered_dst_instance_infos)

\* the InstanceInfo records Loadv2 reads, satisfying the InstanceInfo
\* invariants: 0 <= used + watermark <= total and free = total - used
Loadv2Infos(id) ==
    {x \in {[instance_id          |-> id,
             num_total_gpu_blocks |-> total,
             num_used_gpu_blocks  |-> used,
             num_free_gpu_blocks  |-> total - used,
             num_watermark_blocks |-> wm,
             num_waiting_requests |-> waiting] :
                total \in 1..MaxTotal, used \in 0..MaxTotal, wm \in 0..MaxTotal,
                waiting \in 0..MaxWaiting} :
        x.num_used_gpu_blocks + x.num_watermark_blocks <= x.num_total_gpu_blocks}

\* lists of instances with pairwise distinct ids, in IdOrder
InfoLists(Infos(_)) ==
    UNION {{s \in [1..k -> UNION {Infos(id) : id \in InstanceIds}] :
               \A i \in 1..k : s[i].instance_id = IdOrder[i]} :
           k \in 0..Len(IdOrder)}

Loadv2Init ==
    /\ policy_call \in
          {[policy |-> "loadv2", available_instance_infos |-> infos,
            req_n_blocks |-> n] :
              infos \in InfoLists(Loadv2Infos), n \in 1..MaxNBlocks}
    /\ policy_ret = <<>>
    /\ DispatchIdle

Loadv2Dispatch ==
    /\ policy_ret = <<>>
    /\ policy_ret' = <<Loadv2_dispatch(policy_call.available_instance_infos,
                                      policy_call.req_n_blocks)>>
    /\ UNCHANGED <<policy_call, gs_vars, rr_vars, planner_vars, dispatch_vars>>

InitLoadv2 == GSInit /\ RRInit /\ PlannerIdle /\ Loadv2Init

SpecLoadv2 == InitLoadv2 /\ [][Loadv2Dispatch]_vars

--------------------------------------------------------------------------
(* Urgency.get_dst_instance (migration_policy_Chord.py) and SpecUrgency    *)

\* 1 / 1e-5, the epsilon of the ranking key
EpsilonInverse == 100000

\* x.num_free_gpu_blocks / (x.num_running_requests + 1e-5) >= the same of y,
\* compared exactly by cross-multiplying (both denominators are positive)
UrgencyKeyGeq(x, y) ==
    x.num_free_gpu_blocks * (y.num_running_requests * EpsilonInverse + 1)
        >= y.num_free_gpu_blocks * (x.num_running_requests * EpsilonInverse + 1)

UrgencyNoSelfCheck(dst_instance_infos, src_instance_id, target_request) ==
    LET req_n_blocks == target_request.n_blocks
        filtered_dst_instance_infos ==
            Filter(dst_instance_infos,
                LAMBDA x : x.num_free_gpu_blocks - x.num_watermark_blocks
                              - req_n_blocks > 0)
    IN  IF Len(filtered_dst_instance_infos) # 0
        THEN LET s == filtered_dst_instance_infos
                 k == CHOOSE i \in DOMAIN s :
                          /\ \A j \in DOMAIN s : UrgencyKeyGeq(s[i], s[j])
                          /\ \A j \in 1..(i - 1) : ~UrgencyKeyGeq(s[j], s[i])
             IN  s[k].instance_id
        ELSE None

UrgencyNoAdmissionFilter(dst_instance_infos, src_instance_id, target_request) ==
    IF Len(dst_instance_infos) # 0
    THEN LET s == dst_instance_infos
             k == CHOOSE i \in DOMAIN s :
                      /\ \A j \in DOMAIN s : UrgencyKeyGeq(s[i], s[j])
                      /\ \A j \in 1..(i - 1) : ~UrgencyKeyGeq(s[j], s[i])
             target_dst == s[k].instance_id
         IN  IF target_dst = src_instance_id THEN None ELSE target_dst
    ELSE None

UrgencyFallsBackToNextBest(dst_instance_infos, src_instance_id, target_request) ==
    LET req_n_blocks == target_request.n_blocks
        filtered_dst_instance_infos ==
            Filter(dst_instance_infos,
                LAMBDA x : /\ x.num_free_gpu_blocks - x.num_watermark_blocks
                                 - req_n_blocks > 0
                           /\ x.instance_id # src_instance_id)
    IN  IF Len(filtered_dst_instance_infos) # 0
        THEN LET s == filtered_dst_instance_infos
                 k == CHOOSE i \in DOMAIN s :
                          /\ \A j \in DOMAIN s : UrgencyKeyGeq(s[i], s[j])
                          /\ \A j \in 1..(i - 1) : ~UrgencyKeyGeq(s[j], s[i])
             IN  s[k].instance_id
        ELSE None

\* Urgency.get_dst_instance: the head of the admissible instances sorted
\* (reversed, so stably) by the key, or None
Urgency_get_dst_instance(dst_instance_infos, src_instance_id, target_request) ==
    LET req_n_blocks == target_request.n_blocks
        filtered_dst_instance_infos ==
            Filter(dst_instance_infos,
                LAMBDA x : x.num_free_gpu_blocks - x.num_watermark_blocks
                              - req_n_blocks > 0)
    IN  IF Len(filtered_dst_instance_infos) # 0
        THEN LET s == filtered_dst_instance_infos
                 k == CHOOSE i \in DOMAIN s :
                          /\ \A j \in DOMAIN s : UrgencyKeyGeq(s[i], s[j])
                          /\ \A j \in 1..(i - 1) : ~UrgencyKeyGeq(s[j], s[i])
                 target_dst == s[k].instance_id
             IN  IF target_dst = src_instance_id THEN None ELSE target_dst
        ELSE None

\* MigrationScheduler.get_redispatch_dst_instance: hands the infos of its
\* view to the policy
MigrationScheduler_get_redispatch_dst_instance(view_infos, src_instance_id, target_request) ==
    Urgency_get_dst_instance(view_infos, src_instance_id, target_request)

\* GlobalScheduler.get_redispatch_dst_instance: delegates to the migration
\* sub-scheduler, whose view was refreshed by get_redispatch_src_instances
get_redispatch_dst_instance(view_infos, src_instance_id, target_request) ==
    MigrationScheduler_get_redispatch_dst_instance(view_infos, src_instance_id,
                                                   target_request)

\* the InstanceInfo records get_dst_instance reads; the watermark is part
\* of the free blocks (used + watermark <= total, free = total - used)
UrgencyInfos(id) ==
    {x \in [instance_id : {id},
            num_free_gpu_blocks : 0..MaxFree,
            num_watermark_blocks : 0..MaxWatermark,
            num_running_requests : 0..MaxRunning] :
        x.num_watermark_blocks <= x.num_free_gpu_blocks}

UrgencyInit ==
    /\ policy_call \in
          {[policy |-> "urgency", dst_instance_infos |-> infos,
            src_instance_id |-> src,
            target_request |-> [request_id |-> 1, n_blocks |-> n]] :
              infos \in InfoLists(UrgencyInfos), src \in InstanceIds,
              n \in 1..MaxNBlocks}
    /\ policy_ret = <<>>
    /\ DispatchIdle

GetRedispatchDstInstance ==
    /\ policy_ret = <<>>
    /\ policy_ret' = <<get_redispatch_dst_instance(policy_call.dst_instance_infos,
                                                  policy_call.src_instance_id,
                                                  policy_call.target_request)>>
    /\ UNCHANGED <<policy_call, gs_vars, rr_vars, planner_vars, dispatch_vars>>

InitUrgency == GSInit /\ RRInit /\ PlannerIdle /\ UrgencyInit

SpecUrgency == InitUrgency /\ [][GetRedispatchDstInstance]_vars

--------------------------------------------------------------------------
(* Urgency.get_src_instances (migration_policy_Chord.py) and SpecUrgencySrc *)

\* sorted(s, key = num_waiting_requests, reverse = True); equal keys keep
\* the order of the list
RECURSIVE SortedByWaitingDescending(_)
SortedByWaitingDescending(s) ==
    IF Len(s) = 0 THEN <<>>
    ELSE LET k == CHOOSE i \in DOMAIN s :
                      /\ \A j \in DOMAIN s :
                            s[j].num_waiting_requests <= s[i].num_waiting_requests
                      /\ \A j \in 1..(i - 1) :
                            s[j].num_waiting_requests < s[i].num_waiting_requests
             rest == [j \in 1..(Len(s) - 1) |-> IF j < k THEN s[j] ELSE s[j + 1]]
         IN  <<s[k]>> \o SortedByWaitingDescending(rest)

\* Urgency.get_src_instances: None (is_none) when no instance has a waiting
\* request, otherwise the ids of the sorted list
Urgency_get_src_instances(src_instance_infos) ==
    LET filtered_src_instance_infos ==
            SelectSeq(src_instance_infos, LAMBDA x : x.num_waiting_requests > 0)
    IN  IF Len(filtered_src_instance_infos) # 0
        THEN LET sorted_src_instance_infos ==
                     SortedByWaitingDescending(src_instance_infos)
             IN  [is_none |-> FALSE,
                  target_src |-> [i \in DOMAIN sorted_src_instance_infos |->
                                     sorted_src_instance_infos[i].instance_id]]
        ELSE [is_none |-> TRUE, target_src |-> <<>>]

\* MigrationScheduler.get_redispatch_src_instances hands its view of the
\* instance infos to the policy
MigrationScheduler_get_redispatch_src_instances(view_infos) ==
    Urgency_get_src_instances(view_infos)

\* GlobalScheduler.get_redispatch_src_instances
get_redispatch_src_instances(view_infos) ==
    MigrationScheduler_get_redispatch_src_instances(view_infos)

\* the InstanceInfo records get_src_instances reads
UrgencySrcInfos == [instance_id : InstanceIds, num_waiting_requests : 0..MaxWaiting]

\* lists of instance infos with pairwise distinct ids, in any order
UrgencySrcLists ==
    {s \in SeqsUpTo(UrgencySrcInfos, Cardinality(InstanceIds)) :
        \A i, j \in DOMAIN s : i # j => s[i].instance_id # s[j].instance_id}

UrgencySrcInit ==
    /\ policy_call \in
          {[policy |-> "urgency_src", src_instance_infos |-> infos] :
              infos \in UrgencySrcLists}
    /\ policy_ret = <<>>
    /\ DispatchIdle

GetRedispatchSrcInstances ==
    /\ policy_ret = <<>>
    /\ policy_ret' = <<get_redispatch_src_instances(policy_call.src_instance_infos)>>
    /\ UNCHANGED <<policy_call, gs_vars, rr_vars, planner_vars, dispatch_vars>>

InitUrgencySrc == GSInit /\ RRInit /\ PlannerIdle /\ UrgencySrcInit

SpecUrgencySrc == InitUrgencySrc /\ [][GetRedispatchSrcInstances]_vars

--------------------------------------------------------------------------
(* Balanced.pair_migration (migration_policy_Chord.py) and SpecBalanced    *)

\* load metrics are floats; -inf is a value of its own, and differences
\* may give +inf or nan
Fin(n) == [k |-> "fin", v |-> n]

NegInf == [k |-> "-inf", v |-> 0]

PosInf == [k |-> "+inf", v |-> 0]

NaN == [k |-> "nan", v |-> 0]

\* a - b on floats
FloatSub(a, b) ==
    IF a.k = "nan" \/ b.k = "nan" THEN NaN
    ELSE IF a.k = "fin" /\ b.k = "fin" THEN Fin(a.v - b.v)
    ELSE IF a.k = "fin" THEN (IF b.k = "-inf" THEN PosInf ELSE NegInf)
    ELSE IF b.k = "fin" THEN a
    ELSE IF a.k = b.k THEN NaN
    ELSE a

\* a < b on floats (False whenever one side is nan)
FloatLt(a, b) ==
    IF a.k = "nan" \/ b.k = "nan" THEN FALSE
    ELSE IF a.k = "fin" /\ b.k = "fin" THEN a.v < b.v
    ELSE IF a.k = b.k THEN FALSE
    ELSE a.k = "-inf" \/ b.k = "+inf"

\* a <= b on floats
FloatLeq(a, b) ==
    IF a.k = "nan" \/ b.k = "nan" THEN FALSE ELSE ~FloatLt(b, a)

\* sorted(s, key = Key, reverse = descending) for float keys; both
\* directions keep the order of equal keys
RECURSIVE SortByFloatKey(_, _, _)
SortByFloatKey(s, Key(_), descending) ==
    IF Len(s) = 0 THEN <<>>
    ELSE LET Before(x, y) == IF descending THEN FloatLt(Key(y), Key(x))
                                           ELSE FloatLt(Key(x), Key(y))
             k == CHOOSE i \in DOMAIN s :
                      /\ \A j \in DOMAIN s : ~Before(s[j], s[i])
                      /\ \A j \in 1..(i - 1) : Before(s[i], s[j])
             rest == [j \in 1..(Len(s) - 1) |-> IF j < k THEN s[j] ELSE s[j + 1]]
         IN  <<s[k]>> \o SortByFloatKey(rest, Key, descending)

SortInstanceInfosNotSorted(instance_infos, descending) == instance_infos

\* PairMigrationPolicy.sort_instance_infos
sort_instance_infos(instance_infos, descending) ==
    SortByFloatKey(instance_infos, LAMBDA x : x.migration_load_metric, descending)

BalancedNoDiffCheck(sorted_src, sorted_dst, i, threshold) ==
    LET right_load_after_mig == sorted_dst[i].migration_load_metric_after_migrate_in
    IN  ~FloatLt(threshold, right_load_after_mig)

\* lines 108-117: whether the i-th pair of the sorted lists is appended
BalancedAccepts(sorted_src, sorted_dst, i, threshold) ==
    LET load_diff_before_mig ==
            FloatSub(sorted_src[i].migration_load_metric,
                     sorted_dst[i].migration_load_metric)
        left_load_after_mig == sorted_src[i].migration_load_metric_after_migrate_out
        right_load_after_mig == sorted_dst[i].migration_load_metric_after_migrate_in
        load_diff_after_mig == FloatSub(left_load_after_mig, right_load_after_mig)
    IN  IF FloatLt(threshold, right_load_after_mig)
        THEN FALSE
        ELSE \/ /\ FloatLt(Fin(0), load_diff_after_mig)
                /\ FloatLt(load_diff_after_mig, load_diff_before_mig)
             \/ sorted_dst[i].migration_load_metric = NegInf

RECURSIVE BalancedLoop(_, _, _, _)
BalancedLoop(sorted_src, sorted_dst, i, threshold) ==
    IF i > Min2(Len(sorted_src), Len(sorted_dst))
    THEN <<>>
    ELSE (IF BalancedAccepts(sorted_src, sorted_dst, i, threshold)
          THEN <<<<sorted_src[i].instance_id, sorted_dst[i].instance_id>>>>
          ELSE <<>>)
         \o BalancedLoop(sorted_src, sorted_dst, i + 1, threshold)

\* Balanced.pair_migration
Balanced_pair_migration(src_instance_infos, dst_instance_infos, threshold) ==
    LET sorted_src_instance_infos == sort_instance_infos(src_instance_infos, TRUE)
        sorted_dst_instance_infos == sort_instance_infos(dst_instance_infos, FALSE)
    IN  BalancedLoop(sorted_src_instance_infos, sorted_dst_instance_infos, 1,
                     threshold)

\* the values a load metric of an InstanceInfo takes
MetricValues == {NegInf} \cup {Fin(n) : n \in 0..MaxMetric}

\* the ids of the instances handed to pair_migration, in list order
PairIds == <<"a", "b">>

\* the InstanceInfo records of the source side (its after_migrate_in is
\* not read) and of the destination side (its after_migrate_out is not
\* read)
SrcInfos(id) ==
    {[instance_id |-> id, migration_load_metric |-> m,
      migration_load_metric_after_migrate_out |-> Fin(out),
      migration_load_metric_after_migrate_in |-> m] :
        m \in MetricValues, out \in 0..MaxMetric}

DstInfos(id) ==
    {[instance_id |-> id, migration_load_metric |-> m,
      migration_load_metric_after_migrate_out |-> m,
      migration_load_metric_after_migrate_in |-> in] :
        m \in MetricValues, in \in MetricValues}

PairLists(Infos(_)) ==
    UNION {{s \in [1..k -> UNION {Infos(PairIds[i]) : i \in DOMAIN PairIds}] :
               \A i \in 1..k : s[i].instance_id = PairIds[i]} :
           k \in 0..Len(PairIds)}

BalancedInit ==
    /\ policy_call \in
          {[policy |-> "balanced", src_instance_infos |-> src,
            dst_instance_infos |-> dst,
            migrate_out_load_threshold |-> Fin(MigrateOutLoadThreshold)] :
              src \in PairLists(SrcInfos), dst \in PairLists(DstInfos)}
    /\ policy_ret = <<>>
    /\ DispatchIdle

PairMigration ==
    /\ policy_ret = <<>>
    /\ policy_ret' = <<Balanced_pair_migration(policy_call.src_instance_infos,
                                              policy_call.dst_instance_infos,
                                              policy_call.migrate_out_load_threshold)>>
    /\ UNCHANGED <<policy_call, gs_vars, rr_vars, planner_vars, dispatch_vars>>

InitBalanced == GSInit /\ RRInit /\ PlannerIdle /\ BalancedInit

SpecBalanced == InitBalanced /\ [][PairMigration]_vars

--------------------------------------------------------------------------
(* GlobalScheduler.dispatch, the dispatch policies and SpecDispatch        *)

\* DispatchPolicyFactory._POLICY_REGISTRY
DispatchPolicies == {"flood", "balanced", "load", "queue", "rr", "loadv2"}

\* what a policy call does: the id it returns, or the exception it raises,
\* and RoundRobin's cursor after it
Outcome(instance_id, error, prev) ==
    [instance_id |-> instance_id, error |-> error, prev_instance_idx |-> prev]

\* Flood.dispatch: max(instance_num_requests, key = instance_num_requests.get),
\* the first key with the largest count; max() of an empty dict raises
\* ValueError (instance_id None)
Flood_dispatch(num_requests) ==
    IF DOMAIN num_requests = {} THEN None
    ELSE MinByKey(DictKeys(num_requests), LAMBDA id : 0 - num_requests[id])

\* Balanced.dispatch: min(instance_num_requests, key = instance_num_requests.get)
Balanced_dispatch(num_requests) ==
    IF DOMAIN num_requests = {} THEN None
    ELSE MinByKey(DictKeys(num_requests), LAMBDA id : num_requests[id])

\* sort_instance_infos of dispatch_policy_Chord.py with descending = False:
\* sorted(..., key = getattr(info, key_attr)); equal keys keep the order
\* of the list
RECURSIVE dispatch_sort_instance_infos(_, _)
dispatch_sort_instance_infos(available_instance_infos, key_attr) ==
    LET s == available_instance_infos
    IN  IF Len(s) = 0 THEN <<>>
        ELSE LET k == CHOOSE i \in DOMAIN s :
                          /\ \A j \in DOMAIN s : s[i][key_attr] <= s[j][key_attr]
                          /\ \A j \in 1..(i - 1) : s[j][key_attr] > s[i][key_attr]
                 rest == [j \in 1..(Len(s) - 1) |-> IF j < k THEN s[j] ELSE s[j + 1]]
             IN  <<s[k]>> \o dispatch_sort_instance_infos(rest, key_attr)

RandomChoiceFromWholeList(sorted_instance_infos, topk_random_dispatch) ==
    Range(sorted_instance_infos)

\* random_choice_from_top_k: the elements random.choice may return; none
\* when the list is empty (random.choice raises IndexError)
random_choice_from_top_k(sorted_instance_infos, topk_random_dispatch) ==
    LET k == Min2(topk_random_dispatch, Len(sorted_instance_infos))
        top_k_instance_infos == SubSeq(sorted_instance_infos, 1, k)
    IN  Range(top_k_instance_infos)

\* Load.dispatch: the ids it may return (none: IndexError)
Load_dispatch(available_instance_infos, topk_random_dispatch) ==
    LET sorted_instance_infos ==
            dispatch_sort_instance_infos(available_instance_infos, "dispatch_load_metric")
    IN  {x.instance_id :
            x \in random_choice_from_top_k(sorted_instance_infos, topk_random_dispatch)}

\* Queue.dispatch: the ids it may return (none: IndexError)
Queue_dispatch(available_instance_infos, topk_random_dispatch) ==
    LET sorted_instance_infos ==
            dispatch_sort_instance_infos(available_instance_infos, "num_waiting_requests")
    IN  {x.instance_id :
            x \in random_choice_from_top_k(sorted_instance_infos, topk_random_dispatch)}

PolicyOutcomesReturnNone(policy, prev, num_requests, infos, topk_random_dispatch, req_n_blocks) ==
    {Outcome(None, None, prev)}

\* the policy's dispatch(instance_num_requests, available_instance_infos,
\* topk_random_dispatch, req_n_blocks): its possible outcomes
PolicyOutcomes(policy, prev, num_requests, infos, topk_random_dispatch, req_n_blocks) ==
    IF policy = "flood"
    THEN LET id == Flood_dispatch(num_requests)
         IN  {Outcome(id, IF id = None THEN "ValueError" ELSE None, prev)}
    ELSE IF policy = "balanced"
    THEN LET id == Balanced_dispatch(num_requests)
         IN  {Outcome(id, IF id = None THEN "ValueError" ELSE None, prev)}
    ELSE IF policy = "load"
    THEN LET ids == Load_dispatch(infos, topk_random_dispatch)
         IN  IF ids = {} THEN {Outcome(None, "IndexError", prev)}
             ELSE {Outcome(id, None, prev) : id \in ids}
    ELSE IF policy = "queue"
    THEN LET ids == Queue_dispatch(infos, topk_random_dispatch)
         IN  IF ids = {} THEN {Outcome(None, "IndexError", prev)}
             ELSE {Outcome(id, None, prev) : id \in ids}
    ELSE IF policy = "rr"
    THEN IF DOMAIN num_requests = {}
         THEN {Outcome(None, "ZeroDivisionError", prev)}
         ELSE LET r == RoundRobin_dispatch(prev, num_requests)
              IN  {Outcome(r.target_instance_id, None, r.prev_instance_idx)}
    ELSE LET r == Loadv2_dispatch(infos, req_n_blocks)
         IN  IF r.branch = "ValueError" THEN {Outcome(None, "ValueError", prev)}
             ELSE {Outcome(r.instance_id, None, prev)}

\* DispatchScheduler.dispatch: the policy decides on the sub-scheduler's
\* instance_num_requests and on the infos of the table it holds
DispatchScheduler_dispatch(config, view, prev, num_requests, req_n_blocks) ==
    LET available_instance_infos ==
            [i \in DOMAIN DictKeys(view) |-> view[DictKeys(view)[i]]]
    IN  PolicyOutcomes(config.dispatch_policy, prev, num_requests,
                       available_instance_infos, config.topk_random_dispatch,
                       req_n_blocks)

\* the outcome of a GlobalScheduler.dispatch call: the table the dispatch
\* sub-scheduler holds after it, the cursor after it, the exception that
\* reached the caller (None: none) and the tuple returned (<<>> when the
\* call raised)
DispatchResult(view, o, request_expected_steps) ==
    [dispatch_view     |-> view,
     prev_instance_idx |-> o.prev_instance_idx,
     error             |-> o.error,
     value             |-> IF o.error # None THEN <<>>
                           ELSE <<[instance_id |-> o.instance_id,
                                   request_expected_steps |-> request_expected_steps]>>]

DispatchStaleView(config, table, view, prev, num_requests, req_n_blocks) ==
    {DispatchResult(view, o, IF config.enable_pd_disagg THEN Fin(1) ELSE PosInf) :
        o \in DispatchScheduler_dispatch(config, view, prev, num_requests, req_n_blocks)}

DispatchStepsByRequest(config, table, view, prev, num_requests, req_n_blocks) ==
    {DispatchResult(table, o, IF req_n_blocks = 1 THEN Fin(1) ELSE PosInf) :
        o \in DispatchScheduler_dispatch(config, table, prev, num_requests, req_n_blocks)}

\* GlobalScheduler.dispatch: line 56 hands the table to the dispatch
\* sub-scheduler, line 57 asks it for an id, line 58 sets
\* request_expected_steps from enable_pd_disagg
dispatch(config, table, view, prev, num_requests, req_n_blocks) ==
    {DispatchResult(table, o, IF config.enable_pd_disagg THEN Fin(1) ELSE PosInf) :
        o \in DispatchScheduler_dispatch(config, table, prev, num_requests, req_n_blocks)}

\* GlobalSchedulerConfig: the fields dispatch reads
GlobalSchedulerConfigs ==
    [dispatch_policy : DispatchPolicies,
     topk_random_dispatch : 1..MaxTopK,
     enable_pd_disagg : BOOLEAN]

\* the InstanceInfo records of the table: total blocks MaxTotal, no
\* watermark, free = total - used, and a dispatch load that counts the
\* used blocks and the waiting requests
DispatchInfos(id) ==
    {[instance_id          |-> id,
      num_total_gpu_blocks |-> MaxTotal,
      num_used_gpu_blocks  |-> used,
      num_free_gpu_blocks  |-> MaxTotal - used,
      num_watermark_blocks |-> 0,
      num_waiting_requests |-> waiting,
      dispatch_load_metric |-> used + waiting] :
         used \in 0..(MaxTotal - 1), waiting \in 0..MaxWaiting}

\* instance tables over a set of ids
DispatchTables(S) ==
    {tb \in [S -> UNION {DispatchInfos(id) : id \in S}] :
        \A id \in S : tb[id].instance_id = id}

\* a scheduler with the instances of S registered everywhere (scale_up),
\* telemetry received since, and a dispatch sub-scheduler whose table dates
\* from before the latest snapshot of at most one instance
DispatchInit ==
    \E S \in SUBSET FleetIds :
        /\ num_instances = Cardinality(S)
        /\ instance_id_set = S
        /\ instance_info \in DispatchTables(S)
        /\ pushed = [s \in Schedulers |-> S]
        /\ registered = [s \in Schedulers |->
                            [i \in FleetIds |-> IF i \in S THEN 1 ELSE 0]]
        /\ told = InitSelf.told
        /\ last = [op |-> None, ids |-> <<>>, nargs |-> 0, ret |-> None, repeated |-> FALSE]
        /\ prev_instance_idx = -1
        /\ instance_num_requests = [id \in S |-> 0]
        /\ rr_start = -1
        /\ rr_calls = 0
        /\ rr_count = [id \in InstanceIds |-> 0]
        /\ rr_ret = None
        /\ global_scheduler_config \in GlobalSchedulerConfigs
        /\ dispatch_view \in
              {v \in DispatchTables(S) :
                  Cardinality({id \in S : v[id] # instance_info[id]}) <= 1}
        /\ dispatch_ret = <<>>
        /\ policy_call = [policy |-> None]
        /\ policy_ret = <<>>

\* one GlobalScheduler.dispatch call
Dispatch ==
    \E req_n_blocks \in 1..MaxNBlocks :
        \E r \in dispatch(global_scheduler_config, instance_info, dispatch_view,
                          prev_instance_idx, instance_num_requests, req_n_blocks) :
            /\ dispatch_view' = r.dispatch_view
            /\ pushed' = [pushed EXCEPT !["dispatch_scheduler"] = DOMAIN r.dispatch_view]
            /\ prev_instance_idx' = r.prev_instance_idx
            /\ dispatch_ret' = <<[req_n_blocks |-> req_n_blocks,
                                  error |-> r.error, value |-> r.value]>>
            /\ UNCHANGED <<num_instances, instance_id_set, instance_info, registered,
                           told, last, instance_num_requests, rr_start, rr_calls,
                           rr_count, rr_ret, global_scheduler_config, planner_vars,
                           policy_vars>>

InitDispatch == DispatchInit /\ PlannerIdle

SpecDispatch == InitDispatch /\ [][Dispatch]_vars

--------------------------------------------------------------------------
(* Load.dispatch / Queue.dispatch on any list and SpecTopK                 *)

\* a Load.dispatch or Queue.dispatch call as its caller sees it: the id
\* returned or the exception raised, and the caller's list after the call
\* (sort_instance_infos builds a new list with sorted(), the argument is
\* left as it was)
TopK_dispatch(policy, available_instance_infos, topk_random_dispatch) ==
    {[instance_id |-> o.instance_id, error |-> o.error,
      available_instance_infos |-> available_instance_infos] :
        o \in PolicyOutcomes(policy, -1, EmptyDict, available_instance_infos,
                             topk_random_dispatch, 1)}

\* lists of instance infos with pairwise distinct ids, in any order
TopKLists ==
    {s \in SeqsUpTo(UNION {DispatchInfos(id) : id \in InstanceIds},
                    Cardinality(InstanceIds)) :
        \A i, j \in DOMAIN s : i # j => s[i].instance_id # s[j].instance_id}

TopKInit ==
    /\ policy_call \in
          {[policy |-> p, available_instance_infos |-> infos,
            topk_random_dispatch |-> k] :
              p \in {"load", "queue"}, infos \in TopKLists, k \in 1..MaxTopK}
    /\ policy_ret = <<>>
    /\ DispatchIdle

\* one Load.dispatch / Queue.dispatch call; random.choice picks any of the
\* top k
TopKDispatch ==
    /\ policy_ret = <<>>
    /\ \E o \in TopK_dispatch(policy_call.policy,
                              policy_call.available_instance_infos,
                              policy_call.topk_random_dispatch) :
           policy_ret' = <<o>>
    /\ UNCHANGED <<policy_call, gs_vars, rr_vars, planner_vars, dispatch_vars>>

InitTopK == GSInit /\ RRInit /\ PlannerIdle /\ TopKInit

SpecTopK == InitTopK /\ [][TopKDispatch]_vars

--------------------------------------------------------------------------
(* Balanced / Defrag pair_migration on any lists and SpecPairMigration     *)

\* Defrag.pair_migration: the i-th of the sources sorted descending with
\* the i-th of the destinations sorted ascending, for every i up to the
\* shorter length
Defrag_pair_migration(src_instance_infos, dst_instance_infos) ==
    LET sorted_src_instance_infos == sort_instance_infos(src_instance_infos, TRUE)
        sorted_dst_instance_infos == sort_instance_infos(dst_instance_infos, FALSE)
    IN  [i \in 1..Min2(Len(sorted_src_instance_infos), Len(sorted_dst_instance_infos)) |->
            <<sorted_src_instance_infos[i].instance_id,
              sorted_dst_instance_infos[i].instance_id>>]

\* a pair_migration call as its caller sees it: the pairs returned and the
\* caller's two lists after the call (sort_instance_infos builds new lists
\* with sorted(), the arguments are left as they were)
pair_migration(policy, src_instance_infos, dst_instance_infos, threshold) ==
    [pairs |-> IF policy = "balanced"
               THEN Balanced_pair_migration(src_instance_infos, dst_instance_infos,
                                            threshold)
               ELSE Defrag_pair_migration(src_instance_infos, dst_instance_infos),
     src_instance_infos |-> src_instance_infos,
     dst_instance_infos |-> dst_instance_infos]

\* the InstanceInfo records of the two sides, with the load after the
\* migration at either end of its range
PairSrcInfos ==
    UNION {{x \in SrcInfos(PairIds[i]) :
               x.migration_load_metric_after_migrate_out \in {Fin(0), Fin(MaxMetric)}} :
           i \in DOMAIN PairIds}

PairDstInfos ==
    UNION {{x \in DstInfos(PairIds[i]) :
               x.migration_load_metric_after_migrate_in \in {Fin(0), Fin(MaxMetric)}} :
           i \in DOMAIN PairIds}

\* lists of source (destination) infos with pairwise distinct ids, in any
\* order; an id may be on both sides
PairSrcLists ==
    {s \in SeqsUpTo(PairSrcInfos, Len(PairIds)) :
        \A i, j \in DOMAIN s : i # j => s[i].instance_id # s[j].instance_id}

PairDstLists ==
    {s \in SeqsUpTo(PairDstInfos, Len(PairIds)) :
        \A i, j \in DOMAIN s : i # j => s[i].instance_id # s[j].instance_id}

PairMigrationInit ==
    /\ policy_call \in
          {[policy |-> p, src_instance_infos |-> src, dst_instance_infos |-> dst,
            migrate_out_load_threshold |-> Fin(MigrateOutLoadThreshold)] :
              p \in {"balanced", "defrag"}, src \in PairSrcLists, dst \in PairDstLists}
    /\ policy_ret = <<>>
    /\ DispatchIdle

\* one Balanced.pair_migration / Defrag.pair_migration call
PairMigrationCall ==
    /\ policy_ret = <<>>
    /\ policy_ret' = <<pair_migration(policy_call.policy,
                                     policy_call.src_instance_infos,
                                     policy_call.dst_instance_infos,
                                     policy_call.migrate_out_load_threshold)>>
    /\ UNCHANGED <<policy_call, gs_vars, rr_vars, planner_vars, dispatch_vars>>

InitPairMigration == GSInit /\ RRInit /\ PlannerIdle /\ PairMigrationInit

SpecPairMigration == InitPairMigration /\ [][PairMigrationCall]_vars

--------------------------------------------------------------------------
(* Claims checked under Spec *)

PlaceholderInfo(id) == [get_empty_instance_info EXCEPT !.instance_id = id]

\* C1: membership consistency. In every reachable state num_instances is
\* the size of instance_id_set, the keys of instance_info are exactly
\* instance_id_set, and every sub-scheduler has been told add_instance
\* (net of remove_instance) exactly once for each id of instance_id_set and
\* not at all for any other id.
C1_MembershipConsistency ==
    /\ num_instances = Cardinality(instance_id_set)
    /\ DOMAIN instance_info = instance_id_set
    /\ \A s \in Schedulers : \A id \in FleetIds :
          registered[s][id] = IF id \in instance_id_set THEN 1 ELSE 0

\* a scale_down naming the same known id twice removed it, one instance staying
C1_Witness ==
    /\ last.op = "scale_down"
    /\ Len(last.ids) = 2
    /\ last.ids[1] = last.ids[2]
    /\ told["scaling_scheduler"].op = "remove_instance"
    /\ told["scaling_scheduler"].instance_id = last.ids[1]
    /\ num_instances = 1

\* the position of the last snapshot of the list that carries id (0: none)
RECURSIVE LastSnapshotFor(_, _, _)
LastSnapshotFor(infos, id, i) ==
    IF i = 0 THEN 0
    ELSE IF infos[i].instance_id = id THEN i
    ELSE LastSnapshotFor(infos, id, i - 1)

\* C2: from every reachable state, update_instance_infos leaves
\* instance_id_set, num_instances and the key set of instance_info as they
\* were (a snapshot for an id outside instance_id_set is dropped and no
\* entry is created), and changes the entry of a known id only to the last
\* snapshot the list holds for that id.
C2_StaleSnapshotsIgnored ==
    \A infos \in NonEmptySeqsUpTo(TelemetryInfos, MaxSnapshots) :
        LET after == update_instance_infos(Self, infos)
        IN  /\ after.instance_id_set = instance_id_set
            /\ after.num_instances = num_instances
            /\ DOMAIN after.instance_info = DOMAIN instance_info
            /\ \A id \in FleetIds \ instance_id_set :
                   id \notin DOMAIN after.instance_info
            /\ \A id \in DOMAIN instance_info :
                   LET k == LastSnapshotFor(infos, id, Len(infos))
                   IN  after.instance_info[id] =
                          IF k = 0 THEN instance_info[id] ELSE infos[k]

\* a snapshot for X arrived after scale_down(X), together with one for a
\* known id; X is not in the table
C2_Witness ==
    /\ last.op = "update_instance_infos"
    /\ told["dispatch_scheduler"].op = "remove_instance"
    /\ told["dispatch_scheduler"].instance_id \in Range(last.ids)
    /\ told["dispatch_scheduler"].instance_id \notin DOMAIN instance_info
    /\ \E id \in Range(last.ids) :
          /\ id \in instance_id_set
          /\ instance_info[id] # PlaceholderInfo(id)

ScaleUpInputs ==
    NonEmptySeqsUpTo(FleetIds, MaxBatch) \X SeqsUpTo({"instance_args"}, MaxBatch)

\* C3: idempotent membership. From every reachable state, scale_up with
\* the same arguments twice gives the state it gives once, and so does
\* scale_down; scale_up of a known id leaves the whole state (its stored
\* InstanceInfo and the sub-schedulers' notifications included) as it was,
\* and scale_down of an unknown id changes nothing.
C3_IdempotentMembership ==
    /\ \A in \in ScaleUpInputs :
          scale_up(scale_up(Self, in[1], in[2]), in[1], in[2])
             = scale_up(Self, in[1], in[2])
    /\ \A ids \in NonEmptySeqsUpTo(FleetIds, MaxBatch) :
          scale_down(scale_down(Self, ids), ids) = scale_down(Self, ids)
    /\ \A id \in instance_id_set :
          scale_up(Self, <<id>>, <<"instance_args">>) = Self
    /\ \A id \in FleetIds \ instance_id_set :
          scale_down(Self, <<id>>) = Self

\* the same scale_up was made twice in a row, for an id whose stored
\* telemetry is still there
C3_Witness ==
    /\ last.op = "scale_up"
    /\ last.repeated
    /\ last.nargs >= 1
    /\ last.ids[1] \in instance_id_set
    /\ instance_info[last.ids[1]] # PlaceholderInfo(last.ids[1])

\* C4: the table handed to each sub-scheduler holds exactly the ids of
\* instance_id_set; whenever a sub-scheduler was told add_instance(id) the
\* table it had just been handed already held the placeholder carrying id,
\* and whenever it was told remove_instance(id) that table no longer held
\* an entry for id.
C4_PlaceholderBeforeNotify ==
    \A s \in Schedulers :
        /\ pushed[s] = instance_id_set
        /\ told[s].op = "add_instance" =>
              told[s].entry = {PlaceholderInfo(told[s].instance_id)}
        /\ told[s].op = "remove_instance" => told[s].entry = {}

\* scale_up has just returned for a new id: the dispatch sub-scheduler
\* holds its placeholder, no telemetry having arrived
C4_Witness ==
    /\ last.op = "scale_up"
    /\ told["dispatch_scheduler"].op = "add_instance"
    /\ told["dispatch_scheduler"].instance_id \in Range(last.ids)
    /\ LET id == told["dispatch_scheduler"].instance_id
       IN  /\ id \in pushed["dispatch_scheduler"]
           /\ told["dispatch_scheduler"].entry = {PlaceholderInfo(id)}
           /\ instance_info[id] = PlaceholderInfo(id)

\* the ids of the latest call that zip pairs with an instance_args entry
PairedIds(call) ==
    {call.ids[i] : i \in 1..Min2(Len(call.ids), call.nargs)}

\* C25: scale_up(ids, instance_args) pairs ids with instance_args
\* positionally and adds exactly those ids, among the first
\* min(|ids|, |instance_args|) of the list, that are not yet known; an id
\* with no matching instance_args entry is not added to instance_id_set or
\* instance_info and no sub-scheduler is notified of it; the entries of the
\* ids already known stay; the value returned is num_instances after the
\* call.
C25_ScaleUpPairsPositionally ==
    [][last'.op = "scale_up" =>
          LET added == PairedIds(last') \ instance_id_set
          IN  /\ instance_id_set' = instance_id_set \cup added
              /\ DOMAIN instance_info' = DOMAIN instance_info \cup added
              /\ \A id \in DOMAIN instance_info :
                    instance_info'[id] = instance_info[id]
              /\ \A s \in Schedulers : \A id \in FleetIds :
                    registered'[s][id] =
                        registered[s][id] + IF id \in added THEN 1 ELSE 0
              /\ \A id \in Range(last'.ids) \ (PairedIds(last') \cup instance_id_set) :
                    /\ id \notin instance_id_set'
                    /\ id \notin DOMAIN instance_info'
                    /\ \A s \in Schedulers :
                          /\ registered'[s][id] = 0
                          /\ id \notin pushed'[s]
              /\ last'.ret = num_instances'
    ]_vars

\* scale_up was called with two unknown ids and one instance_args entry:
\* the first id was added, the second was not, and 1 was returned
C25_Witness ==
    /\ last.op = "scale_up"
    /\ ~last.repeated
    /\ Len(last.ids) = 2
    /\ last.nargs = 1
    /\ last.ids[1] # last.ids[2]
    /\ instance_id_set = {last.ids[1]}
    /\ told["dispatch_scheduler"].op = "add_instance"
    /\ told["dispatch_scheduler"].instance_id = last.ids[1]
    /\ last.ret = 1

--------------------------------------------------------------------------
(* Claims checked under SpecPlanner *)

\* C5: admissibility of the redispatch planner. Every request the planner
\* has assigned (to a destination or to the master) went to a candidate
\* whose free value at the moment of the choice was at least the request's
\* n_blocks, unless the fallback branch was taken and no candidate had that
\* much free; and no candidate's free value is below zero.
C5_PlannerAdmissibility ==
    /\ \A k \in DOMAIN choices :
          \/ choices[k].free_before >= choices[k].n_blocks
          \/ /\ choices[k].branch = "fallback"
             /\ ~choices[k].admissible_existed
    /\ \A id \in DOMAIN candidate_instances : candidate_instances[id][1] >= 0

\* C11: planner conservation. In every step of derive_redispatching_plans
\* every candidate id stays in the map, its free + used stays equal to the
\* value it had when the call started, and a candidate whose entry changes
\* in a step is the one chosen in that step.
C11_PlannerConservation ==
    [][\A id \in DOMAIN candidate_instances :
          /\ id \in DOMAIN candidate_instances'
          /\ candidate_instances'[id][1] + candidate_instances'[id][2]
                = candidates_at_call[id][1] + candidates_at_call[id][2]
          /\ candidate_instances'[id] # candidate_instances[id] =>
                /\ Len(choices') = Len(choices) + 1
                /\ choices'[Len(choices')].dst = id]_vars

\* the call has returned after choosing two different candidates
C11_Witness ==
    /\ planner_pc = "returned"
    /\ Len(choices) = 2
    /\ choices[1].dst # choices[2].dst
    /\ \A id \in DOMAIN candidate_instances :
          candidate_instances[id] # candidates_at_call[id]

\* the blocks the first k choices have committed on candidate id
RECURSIVE BlocksCommitted(_, _)
BlocksCommitted(id, k) ==
    IF k = 0 THEN 0
    ELSE BlocksCommitted(id, k - 1)
            + (IF choices[k].dst = id THEN choices[k].n_blocks ELSE 0)

\* the candidate map of the call once its first k choices are committed
CandidatesAfter(k) ==
    [id \in DOMAIN candidates_at_call |->
        <<candidates_at_call[id][1] - BlocksCommitted(id, k),
          candidates_at_call[id][2] + BlocksCommitted(id, k)>>]

\* some candidate with free > 0 has free - n_blocks > 0 for the i-th
\* request of the list, once the choices before it are committed
FeasibleAt(i) ==
    \E id \in DOMAIN candidates_at_call :
        /\ CandidatesAfter(i - 1)[id][1] > 0
        /\ CandidatesAfter(i - 1)[id][1] - global_waiting_requests[i].n_blocks > 0

\* the plan that holds exactly the placements of the choices made
PlacementsMade ==
    [dst \in {choices[i].dst : i \in DOMAIN choices} \ {master_instance_id} |->
        {choices[i].request_id : i \in {j \in DOMAIN choices : choices[j].dst = dst}}]

\* C12: redispatch infeasibility aborts the remainder. When the call has
\* returned, the requests it has handled are a prefix of the input list,
\* each of them was feasible when it was reached, the first request after
\* the prefix (if any) was not, so it and every later request are left
\* unplaced; the candidates carry the commitments of the prefix and nothing
\* else, and the returned plan holds exactly the placements made.
C12_InfeasibilityAbortsRemainder ==
    planner_pc = "returned" =>
        LET k == Len(choices)
        IN  /\ k <= Len(global_waiting_requests)
            /\ \A i \in 1..k :
                  /\ choices[i].request_id = global_waiting_requests[i].request_id
                  /\ FeasibleAt(i)
            /\ k < Len(global_waiting_requests) => ~FeasibleAt(k + 1)
            /\ candidate_instances = CandidatesAfter(k)
            /\ redispatch_plans = PlacementsMade

\* the call returned with the first request and a later one unplaced,
\* although some candidate has room for the later one
C12_Witness ==
    /\ planner_pc = "returned"
    /\ Len(choices) = 0
    /\ Len(global_waiting_requests) = 2
    /\ \E id \in DOMAIN candidate_instances :
          /\ candidate_instances[id][1] > 0
          /\ candidate_instances[id][1] - global_waiting_requests[2].n_blocks > 0

\* the first id, in candidate-map order, of a non-empty set of ids
FirstId(S) == CHOOSE id \in S : \A other \in S : IdRank(id) <= IdRank(other)

\* the candidate the selection rule names for a request of n_blocks on the
\* candidate map cands
SelectionRule(cands, n_blocks) ==
    LET available == {id \in DOMAIN cands : cands[id][1] > 0}
        max_used == CHOOSE u \in {cands[id][2] : id \in available} :
                        \A id \in available : cands[id][2] <= u
        F == {id \in available : cands[id][1] - n_blocks > 0}
        FII == {id \in available : max_used - cands[id][2] - n_blocks > 0}
    IN  IF FII # {}
        THEN FirstId({id \in FII :
                 \A other \in FII :
                     max_used - (cands[id][2] + n_blocks)
                        <= max_used - (cands[other][2] + n_blocks)})
        ELSE FirstId({id \in F :
                 \A other \in F :
                     cands[id][2] + n_blocks - max_used
                        <= cands[other][2] + n_blocks - max_used})

\* C16: planner selection rule. Every choice the planner makes is the
\* candidate the rule names on the candidate map of that moment: with
\* max_used the largest used value over the candidates with free > 0, the
\* minimiser of max_used - (used + n_blocks) over F' when F' is not empty,
\* else the minimiser of used + n_blocks - max_used over F, ties to the
\* first id in candidate-map order. On master m, candidates m:[0,50],
\* a:[20,10], b:[30,5] (here a, b, c in map order) and requests of 8, 8 and
\* 25 blocks the plan returned is {b:{r1}, a:{r2}}.
C16_PlannerSelectionRule ==
    /\ \A k \in DOMAIN choices :
          choices[k].dst = SelectionRule(CandidatesAfter(k - 1), choices[k].n_blocks)
    /\ derive_redispatching_plans("a",
            <<[request_id |-> 1, n_blocks |-> 8], [request_id |-> 2, n_blocks |-> 8],
              [request_id |-> 3, n_blocks |-> 25]>>,
            [id \in {"a", "b", "c"} |->
                IF id = "a" THEN <<0, 50>> ELSE IF id = "b" THEN <<20, 10>> ELSE <<30, 5>>])
          = [id \in {"b", "c"} |-> IF id = "c" THEN {1} ELSE {2}]

\* two choices were made, one by the rule over F' and one by the rule over
\* F, the latter with the two candidates tied
C16_Witness ==
    /\ Len(choices) = 2
    /\ \E k \in DOMAIN choices : choices[k].branch = "II"
    /\ \E k \in DOMAIN choices :
          /\ choices[k].branch = "fallback"
          /\ LET cands == CandidatesAfter(k - 1)
             IN  /\ cands["a"][2] = cands["b"][2]
                 /\ cands["a"][1] - choices[k].n_blocks > 0
                 /\ cands["b"][1] - choices[k].n_blocks > 0

\* C17: master handling in the planner. master_instance_id is never a key
\* of the plan; when the call has returned, no request whose chosen
\* candidate was the master is in the plan, and every candidate, the master
\* included, carries the commitments of the requests it was chosen for
\* (free decreased and used increased by their n_blocks).
C17_MasterHandling ==
    /\ master_instance_id \notin DOMAIN redispatch_plans
    /\ candidate_instances = CandidatesAfter(Len(choices))
    /\ planner_pc = "returned" =>
          \A k \in DOMAIN choices :
              choices[k].dst = master_instance_id =>
                  \A dst \in DOMAIN redispatch_plans :
                      choices[k].request_id \notin redispatch_plans[dst]

\* the call has returned after choosing the master for one request and
\* another candidate for another
C17_Witness ==
    /\ planner_pc = "returned"
    /\ \E k \in DOMAIN choices : choices[k].dst = master_instance_id
    /\ \E k \in DOMAIN choices : choices[k].dst # master_instance_id
    /\ candidate_instances[master_instance_id] # candidates_at_call[master_instance_id]

\* the request ids of the input list
InputRequestIds ==
    {global_waiting_requests[i].request_id : i \in DOMAIN global_waiting_requests}

\* the request ids the returned plan assigns to some destination
AssignedRequestIds == UNION {redispatch_plans[dst] : dst \in DOMAIN redispatch_plans}

\* the request ids the call placed on the master (they are in no set of
\* the plan)
KeptOnMasterIds ==
    {choices[k].request_id :
        k \in {k \in DOMAIN choices : choices[k].dst = master_instance_id}}

\* C23: for an input list with pairwise distinct request ids, the plan
\* derive_redispatching_plans returns contains only request ids of the
\* input list, each request id is in the set of at most one destination,
\* and the requests processed (assigned to a destination or kept on the
\* master) form a prefix of the input list: none is assigned after an
\* earlier one was left unprocessed.
C23_PlanWellFormed ==
    planner_pc = "returned" =>
        /\ AssignedRequestIds \subseteq InputRequestIds
        /\ \A d1, d2 \in DOMAIN redispatch_plans :
              d1 # d2 => redispatch_plans[d1] \cap redispatch_plans[d2] = {}
        /\ AssignedRequestIds \cap KeptOnMasterIds = {}
        /\ \E n \in 0..Len(global_waiting_requests) :
              AssignedRequestIds \cup KeptOnMasterIds =
                  {global_waiting_requests[i].request_id : i \in 1..n}

\* the call returned a plan that assigns the first of two requests and
\* leaves the second unprocessed, although a candidate still has free
\* blocks
C23_Witness ==
    /\ planner_pc = "returned"
    /\ Len(global_waiting_requests) = 2
    /\ AssignedRequestIds = {global_waiting_requests[1].request_id}
    /\ KeptOnMasterIds = {}
    /\ \E id \in DOMAIN candidate_instances : candidate_instances[id][1] > 0

--------------------------------------------------------------------------
(* Claims checked under SpecLoadv2 *)

Loadv2Admissible(x, req_n_blocks) ==
    x.num_free_gpu_blocks - x.num_watermark_blocks >= req_n_blocks

\* C6: admissibility of Loadv2 dispatch. For a non-empty list of instances
\* and a positive req_n_blocks, the instance Loadv2.dispatch returns has
\* num_free_gpu_blocks - num_watermark_blocks >= req_n_blocks, unless the
\* overshoot fallback branch ("growing steadily") was taken and no instance
\* of the list is admissible.
C6_Loadv2Admissibility ==
    (policy_ret # <<>> /\ Len(policy_call.available_instance_infos) > 0) =>
        LET infos == policy_call.available_instance_infos
            n == policy_call.req_n_blocks
            r == policy_ret[1]
        IN  \A i \in DOMAIN infos :
                infos[i].instance_id = r.instance_id =>
                    \/ Loadv2Admissible(infos[i], n)
                    \/ /\ r.branch = "The system is growing steadily."
                       /\ \A j \in DOMAIN infos : ~Loadv2Admissible(infos[j], n)

\* the least index of a non-empty set of list indices
FirstIndex(S) == CHOOSE i \in S : \A j \in S : i <= j

\* the index the not-overloaded rule names in the list for a request of
\* req_n_blocks
NotOverloadedRule(infos, req_n_blocks) ==
    LET max_used == CHOOSE u \in {infos[i].num_used_gpu_blocks : i \in DOMAIN infos} :
                        \A i \in DOMAIN infos : infos[i].num_used_gpu_blocks <= u
        slack(i) == max_used - infos[i].num_watermark_blocks
                       - infos[i].num_used_gpu_blocks - req_n_blocks
        overshoot(i) == infos[i].num_used_gpu_blocks + req_n_blocks
                           + infos[i].num_watermark_blocks - max_used
        F1 == {i \in DOMAIN infos : slack(i) >= 0}
    IN  IF F1 # {}
        THEN FirstIndex({i \in F1 : \A j \in F1 : slack(i) <= slack(j)})
        ELSE FirstIndex({i \in DOMAIN infos :
                            \A j \in DOMAIN infos : overshoot(i) <= overshoot(j)})

\* an InstanceInfo with the fields Loadv2 reads
Loadv2Info(id, used, watermark, waiting) ==
    [instance_id |-> id, num_used_gpu_blocks |-> used,
     num_watermark_blocks |-> watermark, num_waiting_requests |-> waiting]

\* C18: Loadv2, system not overloaded. When no instance of a non-empty list
\* has a waiting request, Loadv2.dispatch returns the first instance that
\* minimises slack among those with slack >= 0 (slack = max_used -
\* watermark - used - req_n_blocks, max_used the largest used over the
\* list), and when none has slack >= 0 the first instance minimising
\* used + req_n_blocks + watermark - max_used. With used = [40, 20, 10],
\* watermark 5 and req_n_blocks 8 it returns the instance with 20 used.
C18_Loadv2NotOverloaded ==
    /\ (/\ policy_ret # <<>>
        /\ Len(policy_call.available_instance_infos) > 0
        /\ \A i \in DOMAIN policy_call.available_instance_infos :
              policy_call.available_instance_infos[i].num_waiting_requests = 0)
          => policy_ret[1].instance_id =
                policy_call.available_instance_infos[
                    NotOverloadedRule(policy_call.available_instance_infos,
                                      policy_call.req_n_blocks)].instance_id
    /\ Loadv2_dispatch(<<Loadv2Info("a", 40, 5, 0), Loadv2Info("b", 20, 5, 0),
                         Loadv2Info("c", 10, 5, 0)>>, 8).instance_id = "b"

\* three instances without waiting requests, two of them with slack >= 0
\* and different slacks, and the one returned is not the first of the list
C18_Witness ==
    /\ policy_ret # <<>>
    /\ policy_call.policy = "loadv2"
    /\ Len(policy_call.available_instance_infos) = 3
    /\ policy_ret[1].branch = "System is not overloaded at dispatching."
    /\ policy_ret[1].instance_id # policy_call.available_instance_infos[1].instance_id
    /\ LET infos == policy_call.available_instance_infos
           used == {infos[i].num_used_gpu_blocks : i \in DOMAIN infos}
       IN  Cardinality(used) > 1

\* C19: Loadv2, system overloaded. When some instance of the list has a
\* waiting request, Loadv2.dispatch returns the first instance with the
\* largest num_waiting_requests over the whole list, idle instances
\* included, whatever the block counts and req_n_blocks are. With
\* num_waiting_requests = [0, 5, 2] it returns the instance with 5.
C19_Loadv2Overloaded ==
    /\ (/\ policy_ret # <<>>
        /\ \E i \in DOMAIN policy_call.available_instance_infos :
              policy_call.available_instance_infos[i].num_waiting_requests > 0)
          => LET infos == policy_call.available_instance_infos
                 most == FirstIndex({i \in DOMAIN infos :
                            \A j \in DOMAIN infos :
                                infos[i].num_waiting_requests
                                   >= infos[j].num_waiting_requests})
             IN  policy_ret[1].instance_id = infos[most].instance_id
    /\ \A req_n_blocks \in 1..MaxNBlocks :
          Loadv2_dispatch(<<Loadv2Info("a", 0, 0, 0), Loadv2Info("b", 0, 0, 5),
                            Loadv2Info("c", 0, 0, 2)>>, req_n_blocks).instance_id = "b"

\* an idle instance comes first in the list, two instances with a waiting
\* request follow, and the first of the two is returned
C19_Witness ==
    /\ policy_ret # <<>>
    /\ policy_call.policy = "loadv2"
    /\ Len(policy_call.available_instance_infos) = 3
    /\ LET infos == policy_call.available_instance_infos
       IN  /\ infos[1].num_waiting_requests = 0
           /\ infos[2].num_waiting_requests > 0
           /\ infos[3].num_waiting_requests = infos[2].num_waiting_requests
           /\ policy_ret[1].instance_id = infos[2].instance_id

--------------------------------------------------------------------------
(* Claims checked under SpecUrgency *)

UrgencyAdmissible(x, request) ==
    x.num_free_gpu_blocks - x.num_watermark_blocks - request.n_blocks > 0

\* C7: admissibility of Urgency redispatch. When get_redispatch_dst_instance
\* returns an id, that id is in the list it decided on and its instance has
\* num_free_gpu_blocks - num_watermark_blocks - n_blocks > 0; when no
\* instance of the list satisfies this, it returns None.
C7_UrgencyAdmissibility ==
    policy_ret # <<>> =>
        LET infos == policy_call.dst_instance_infos
            request == policy_call.target_request
            r == policy_ret[1]
        IN  /\ r # None =>
                 /\ \E i \in DOMAIN infos : infos[i].instance_id = r
                 /\ \A i \in DOMAIN infos :
                       infos[i].instance_id = r => UrgencyAdmissible(infos[i], request)
            /\ (\A i \in DOMAIN infos : ~UrgencyAdmissible(infos[i], request))
                  => r = None

\* an id was returned from a list of three in which another instance, with
\* at least as many free blocks as the one returned, is not admissible
C7_Witness ==
    /\ policy_ret # <<>>
    /\ policy_ret[1] # None
    /\ LET infos == policy_call.dst_instance_infos
           request == policy_call.target_request
       IN  /\ Len(infos) = 3
           /\ \E i, j \in DOMAIN infos :
                 /\ infos[i].instance_id = policy_ret[1]
                 /\ ~UrgencyAdmissible(infos[j], request)
                 /\ infos[j].num_free_gpu_blocks >= infos[i].num_free_gpu_blocks

\* C8: no self-redispatch. get_redispatch_dst_instance never returns
\* src_instance_id: it returns None or an id different from it.
C8_NoSelfRedispatch ==
    policy_ret # <<>> => policy_ret[1] # policy_call.src_instance_id

\* None was returned although admissible instances exist, src_instance_id
\* and another one among them: the head of the ranking was src_instance_id
C8_Witness ==
    /\ policy_ret # <<>>
    /\ policy_ret[1] = None
    /\ LET infos == policy_call.dst_instance_infos
           request == policy_call.target_request
       IN  \E i, j \in DOMAIN infos :
              /\ infos[i].instance_id = policy_call.src_instance_id
              /\ UrgencyAdmissible(infos[i], request)
              /\ j # i
              /\ UrgencyAdmissible(infos[j], request)

\* x ranks strictly above y: its key is strictly larger
UrgencyKeyGt(x, y) == ~UrgencyKeyGeq(y, x)

\* the positions of the admissible instances of the call's list that no
\* admissible instance outranks: none has a larger key, none before it an
\* equal one
UrgencyHeads ==
    LET infos == policy_call.dst_instance_infos
        request == policy_call.target_request
        adm == {i \in DOMAIN infos : UrgencyAdmissible(infos[i], request)}
    IN  {i \in adm :
            \A j \in adm : /\ ~UrgencyKeyGt(infos[j], infos[i])
                           /\ j < i => UrgencyKeyGt(infos[i], infos[j])}

\* C22: Urgency.get_dst_instance considers only the head of the admissible
\* candidates ranked descending by num_free_gpu_blocks /
\* (num_running_requests + epsilon), ties to the first in input order: it
\* returns that head when it differs from src_id and None when the head is
\* src_id, also when other admissible instances different from src_id
\* exist; it returns None when no candidate is admissible.
C22_UrgencyHeadOnly ==
    LET infos == policy_call.dst_instance_infos
    IN  /\ Cardinality(UrgencyHeads) <= 1
        /\ policy_ret # <<>> =>
              /\ UrgencyHeads = {} => policy_ret[1] = None
              /\ \A h \in UrgencyHeads :
                    policy_ret[1] = IF infos[h].instance_id = policy_call.src_instance_id
                                    THEN None
                                    ELSE infos[h].instance_id

\* None was returned because the head is src_instance_id, the second of
\* the list, which ties with the third and outranks the first; both other
\* instances are admissible
C22_Witness ==
    LET infos == policy_call.dst_instance_infos
        request == policy_call.target_request
    IN  /\ policy_ret # <<>>
        /\ policy_ret[1] = None
        /\ Len(infos) = 3
        /\ UrgencyHeads = {2}
        /\ infos[2].instance_id = policy_call.src_instance_id
        /\ \A i \in DOMAIN infos : UrgencyAdmissible(infos[i], request)
        /\ UrgencyKeyGt(infos[2], infos[1])
        /\ UrgencyKeyGeq(infos[3], infos[2])

--------------------------------------------------------------------------
(* Claims checked under SpecUrgencySrc *)

\* the num_waiting_requests of the instance with this id in the list
WaitingOf(infos, id) ==
    infos[CHOOSE i \in DOMAIN infos : infos[i].instance_id = id].num_waiting_requests

\* C13: Urgency.get_src_instances keeps only instances with
\* num_waiting_requests > 0. Every id returned belongs to an instance with
\* at least one waiting request, the ids are ordered by num_waiting_requests
\* descending, and when no instance has a waiting request the result is
\* empty or None.
C13_SrcInstancesHaveWaiting ==
    policy_ret # <<>> =>
        LET infos == policy_call.src_instance_infos
            r == policy_ret[1]
        IN  /\ \A k \in DOMAIN r.target_src :
                  WaitingOf(infos, r.target_src[k]) > 0
            /\ \A k \in 1..(Len(r.target_src) - 1) :
                  WaitingOf(infos, r.target_src[k])
                     >= WaitingOf(infos, r.target_src[k + 1])
            /\ (\A i \in DOMAIN infos : infos[i].num_waiting_requests = 0)
                  => Len(r.target_src) = 0

--------------------------------------------------------------------------
(* Claims checked under SpecBalanced *)

\* the InstanceInfo of the list that carries id (ids are distinct in a list)
InfoOf(infos, id) == infos[CHOOSE i \in DOMAIN infos : infos[i].instance_id = id]

DiffBefore(pair) ==
    FloatSub(InfoOf(policy_call.src_instance_infos, pair[1]).migration_load_metric,
             InfoOf(policy_call.dst_instance_infos, pair[2]).migration_load_metric)

DiffAfter(pair) ==
    FloatSub(InfoOf(policy_call.src_instance_infos, pair[1]).migration_load_metric_after_migrate_out,
             InfoOf(policy_call.dst_instance_infos, pair[2]).migration_load_metric_after_migrate_in)

DstOf(pair) == InfoOf(policy_call.dst_instance_infos, pair[2])

\* the condition every returned pair satisfies
AntiPingPong(pair) ==
    /\ \/ /\ FloatLt(Fin(0), DiffAfter(pair))
          /\ FloatLt(DiffAfter(pair), DiffBefore(pair))
       \/ DstOf(pair).migration_load_metric = NegInf
    /\ FloatLeq(DstOf(pair).migration_load_metric_after_migrate_in,
                policy_call.migrate_out_load_threshold)

\* the migration would widen the gap, or flip the order of the two loads
WidensOrFlips(pair) ==
    \/ FloatLt(DiffBefore(pair), DiffAfter(pair))
    \/ FloatLt(DiffAfter(pair), Fin(0))

\* C9 as stated: every pair Balanced.pair_migration returns satisfies
\* (0 < diff_after < diff_before or dst.migration_load_metric = -inf) and
\* dst.migration_load_metric_after_migrate_in <= migrate_out_load_threshold,
\* and no returned pair widens the gap or flips the order.
C9_AntiPingPongAsStated ==
    policy_ret # <<>> =>
        \A k \in DOMAIN policy_ret[1] :
            /\ AntiPingPong(policy_ret[1][k])
            /\ ~WidensOrFlips(policy_ret[1][k])

\* C9 amended: every pair Balanced.pair_migration returns satisfies
\* (0 < diff_after < diff_before or dst.migration_load_metric = -inf) and
\* dst.migration_load_metric_after_migrate_in <= migrate_out_load_threshold;
\* a returned pair whose destination's migration_load_metric is not -inf
\* neither widens the gap nor flips the order.
C9_AntiPingPong ==
    policy_ret # <<>> =>
        \A k \in DOMAIN policy_ret[1] :
            /\ AntiPingPong(policy_ret[1][k])
            /\ DstOf(policy_ret[1][k]).migration_load_metric # NegInf
                  => ~WidensOrFlips(policy_ret[1][k])

\* of two candidate pairs one was returned, its destination's metric
\* finite, and the other was not
C9_Witness ==
    /\ policy_ret # <<>>
    /\ Len(policy_call.src_instance_infos) = 2
    /\ Len(policy_call.dst_instance_infos) = 2
    /\ Len(policy_ret[1]) = 1
    /\ DstOf(policy_ret[1][1]).migration_load_metric # NegInf

--------------------------------------------------------------------------
(* Claims checked under SpecDispatch *)

\* the infos of a table, in the order of its keys
TableInfos(table) == [i \in DOMAIN DictKeys(table) |-> table[DictKeys(table)[i]]]

\* C14: NoCandidate. A dispatch made while there are no instances (empty
\* id map, empty table) raises an error that reaches the caller and
\* returns no instance id, whichever of the six policies is configured,
\* and leaves the instance table, the membership and the round-robin
\* cursor as they were.
C14_NoCandidate ==
    [][(DOMAIN instance_info = {} /\ DOMAIN instance_num_requests = {}) =>
          /\ dispatch_ret' # <<>>
          /\ dispatch_ret'[1].error # None
          /\ dispatch_ret'[1].value = <<>>
          /\ instance_info' = instance_info
          /\ instance_id_set' = instance_id_set
          /\ num_instances' = num_instances
          /\ prev_instance_idx' = prev_instance_idx]_vars

\* a dispatch on an empty fleet under the load policy has raised
C14_Witness ==
    /\ dispatch_ret # <<>>
    /\ instance_id_set = {}
    /\ global_scheduler_config.dispatch_policy = "load"
    /\ dispatch_ret[1].error = "IndexError"

\* C15: GlobalScheduler.dispatch hands the current instance table to the
\* dispatch sub-scheduler, returns an id the policy chooses on that table
\* together with expected_steps, which is 1 when enable_pd_disagg is set
\* and +infinity otherwise whatever the request and the fleet are, and
\* changes neither instance_info nor instance_id_set.
C15_DispatchExpectedSteps ==
    [][/\ dispatch_view' = instance_info
       /\ instance_info' = instance_info
       /\ instance_id_set' = instance_id_set
       /\ dispatch_ret' # <<>>
       /\ dispatch_ret'[1].value # <<>> =>
             /\ dispatch_ret'[1].value[1].request_expected_steps =
                   (IF global_scheduler_config.enable_pd_disagg THEN Fin(1) ELSE PosInf)
             /\ \E o \in PolicyOutcomes(global_scheduler_config.dispatch_policy,
                                        prev_instance_idx, instance_num_requests,
                                        TableInfos(instance_info),
                                        global_scheduler_config.topk_random_dispatch,
                                        dispatch_ret'[1].req_n_blocks) :
                    /\ o.error = None
                    /\ o.instance_id = dispatch_ret'[1].value[1].instance_id]_vars

\* a dispatch of a one-block request on two instances, without
\* prefill-decode disaggregation, returned an id and +infinity
C15_Witness ==
    /\ dispatch_ret # <<>>
    /\ Cardinality(instance_id_set) = 2
    /\ ~global_scheduler_config.enable_pd_disagg
    /\ dispatch_ret[1].req_n_blocks = 1
    /\ dispatch_ret[1].value # <<>>
    /\ dispatch_ret[1].value[1].request_expected_steps = PosInf
    /\ dispatch_ret[1].value[1].instance_id \in instance_id_set

--------------------------------------------------------------------------
(* Claims checked under SpecRR *)

\* C10: round-robin fairness. After K RoundRobin dispatch calls made while
\* the key set stayed the same, of size N >= 1, every id of the set has
\* been returned floor(K/N) or ceil(K/N) times, whatever the cursor was
\* before the first of these calls.
C10_RoundRobinFairness ==
    LET N == Cardinality(DOMAIN instance_num_requests)
        K == rr_calls
    IN  N >= 1 =>
          \A id \in DOMAIN instance_num_requests :
              \/ rr_count[id] = K \div N
              \/ rr_count[id] = (K + N - 1) \div N

\* five calls over two ids, started with the cursor left at 2 by a larger
\* fleet
C10_Witness ==
    /\ Cardinality(DOMAIN instance_num_requests) = 2
    /\ rr_start = 2
    /\ rr_calls = 5
    /\ \E id \in DOMAIN instance_num_requests : rr_count[id] = 3

\* the id of S at 0-based position k of sorted(S)
IdAt(S, k) == CHOOSE id \in S : Cardinality({o \in S : IdRank(o) < IdRank(id)}) = k

\* the ids a fresh RoundRobin policy returns on n calls with a fixed map
RECURSIVE FreshCalls(_, _, _)
FreshCalls(prev, num_requests, n) ==
    IF n = 0 THEN <<>>
    ELSE LET r == RoundRobin_dispatch(prev, num_requests)
         IN  <<r.target_instance_id>>
                \o FreshCalls(r.prev_instance_idx, num_requests, n - 1)

\* C20: round-robin cursor under membership change. The cursor starts at
\* -1; every dispatch on a non-empty id set of size n returns
\* sorted(ids)[(prev + 1) mod n] for the id set of that call, a member of
\* that set, and stores that index as the cursor; a change of the id set
\* leaves the cursor as it is. A fresh policy with three ids x < y < z
\* returns x, y, z, x on four calls.
C20_RoundRobinCursor ==
    /\ prev_instance_idx = -1
    /\ [][/\ rr_calls' = rr_calls + 1 =>
                LET ids == DOMAIN instance_num_requests
                    n == Cardinality(ids)
                IN  /\ n > 0
                    /\ rr_ret' = IdAt(ids, (prev_instance_idx + 1) % n)
                    /\ rr_ret' \in ids
                    /\ prev_instance_idx' = (prev_instance_idx + 1) % n
          /\ DOMAIN instance_num_requests' # DOMAIN instance_num_requests =>
                prev_instance_idx' = prev_instance_idx
          /\ FreshCalls(-1, [id \in {"a", "b", "c"} |-> 0], 4)
                = <<"a", "b", "c", "a">>]_vars

\* the first call after a removal left the cursor beyond the last index
\* of the smaller id set, and it returned a member of the set
C20_Witness ==
    /\ rr_calls = 1
    /\ rr_start + 1 >= Cardinality(DOMAIN instance_num_requests)
    /\ rr_start >= 1
    /\ rr_ret \in DOMAIN instance_num_requests

--------------------------------------------------------------------------
(* Claims checked under SpecTopK *)

\* the attribute the policy of the call sorts by
TopKKey(x) ==
    IF policy_call.policy = "load" THEN x.dispatch_load_metric
    ELSE x.num_waiting_requests

\* the number of entries of the list that come before entry i in the
\* stable ascending order
TopKRank(i) ==
    LET infos == policy_call.available_instance_infos
    IN  Cardinality({j \in DOMAIN infos :
                        \/ TopKKey(infos[j]) < TopKKey(infos[i])
                        \/ TopKKey(infos[j]) = TopKKey(infos[i]) /\ j < i})

\* the ids of the first min(topk_random_dispatch, n) entries of that order
TopKIds ==
    LET infos == policy_call.available_instance_infos
        k     == Min2(policy_call.topk_random_dispatch, Len(infos))
    IN  {infos[i].instance_id : i \in {i \in DOMAIN infos : TopKRank(i) < k}}

\* the ids the policy of the call may return
TopKPossible ==
    IF policy_call.policy = "load"
    THEN Load_dispatch(policy_call.available_instance_infos,
                       policy_call.topk_random_dispatch)
    ELSE Queue_dispatch(policy_call.available_instance_infos,
                        policy_call.topk_random_dispatch)

\* C21: on a non-empty list Load (resp. Queue) returns one of the first
\* k = min(topk_random_dispatch, n) entries of the list sorted ascending,
\* stably, by dispatch_load_metric (resp. num_waiting_requests); each of
\* these k entries is a possible result and no other instance is; with
\* topk_random_dispatch = 1 the result is the first instance with the
\* minimum key; the input list is not reordered.
C21_TopKDispatch ==
    LET infos == policy_call.available_instance_infos
    IN  /\ TopKPossible = TopKIds
        /\ Cardinality(TopKIds) = Min2(policy_call.topk_random_dispatch, Len(infos))
        /\ (policy_ret # <<>> /\ Len(infos) > 0) =>
              /\ policy_ret[1].error = None
              /\ policy_ret[1].instance_id \in TopKIds
              /\ policy_ret[1].available_instance_infos = infos
              /\ policy_call.topk_random_dispatch = 1 =>
                    LET m == CHOOSE i \in DOMAIN infos :
                                 /\ \A j \in DOMAIN infos :
                                       TopKKey(infos[i]) <= TopKKey(infos[j])
                                 /\ \A j \in 1..(i - 1) :
                                       TopKKey(infos[j]) # TopKKey(infos[i])
                    IN  policy_ret[1].instance_id = infos[m].instance_id

\* a call on three instances with k = 2 < n that returned the second of
\* the sorted list, which is not the first of the input list and ties with
\* the entry left out
C21_Witness ==
    LET infos == policy_call.available_instance_infos
    IN  /\ policy_ret # <<>>
        /\ Len(infos) = 3
        /\ policy_call.topk_random_dispatch = 2
        /\ \E i, j \in DOMAIN infos :
              /\ i < j
              /\ policy_ret[1].instance_id = infos[i].instance_id
              /\ TopKRank(i) = 1
              /\ TopKRank(j) = 2
              /\ TopKKey(infos[i]) = TopKKey(infos[j])
              /\ i # 1

--------------------------------------------------------------------------
(* Claims checked under SpecPairMigration *)

\* x and y carry the same load
SameLoad(x, y) ==
    /\ ~FloatLt(x.migration_load_metric, y.migration_load_metric)
    /\ ~FloatLt(y.migration_load_metric, x.migration_load_metric)

\* the id of the i-th most loaded instance of the list, the earlier of two
\* equally loaded ones first
MostLoaded(infos, i) ==
    LET k == CHOOSE k \in DOMAIN infos :
                 Cardinality({j \in DOMAIN infos :
                     \/ FloatLt(infos[k].migration_load_metric,
                                infos[j].migration_load_metric)
                     \/ SameLoad(infos[j], infos[k]) /\ j < k}) = i - 1
    IN  infos[k].instance_id

\* the id of the i-th least loaded instance of the list, the earlier of
\* two equally loaded ones first
LeastLoaded(infos, i) ==
    LET k == CHOOSE k \in DOMAIN infos :
                 Cardinality({j \in DOMAIN infos :
                     \/ FloatLt(infos[j].migration_load_metric,
                                infos[k].migration_load_metric)
                     \/ SameLoad(infos[j], infos[k]) /\ j < k}) = i - 1
    IN  infos[k].instance_id

\* the candidate pairs of the call
CandidatePairs ==
    LET src == policy_call.src_instance_infos
        dst == policy_call.dst_instance_infos
    IN  [i \in 1..Min2(Len(src), Len(dst)) |->
            <<MostLoaded(src, i), LeastLoaded(dst, i)>>]

\* C24: with pairwise distinct ids within src_instance_infos and within
\* dst_instance_infos, Balanced.pair_migration returns at most
\* min(|src|, |dst|) pairs and Defrag.pair_migration exactly that many; no
\* src id and no dst id is in two pairs; the pairs returned are candidate
\* pairs in their order, the i-th candidate pair being the i-th most loaded
\* src with the i-th least loaded dst by migration_load_metric (Defrag
\* returns all of them); the input lists are not modified.
C24_PairMigrationPairs ==
    policy_ret # <<>> =>
        LET pairs == policy_ret[1].pairs
            n == Min2(Len(policy_call.src_instance_infos),
                      Len(policy_call.dst_instance_infos))
        IN  /\ Len(pairs) <= n
            /\ policy_call.policy = "defrag" => pairs = CandidatePairs
            /\ \A i, j \in DOMAIN pairs :
                  i # j => pairs[i][1] # pairs[j][1] /\ pairs[i][2] # pairs[j][2]
            /\ pairs = SelectSeq(CandidatePairs, LAMBDA p : p \in Range(pairs))
            /\ policy_ret[1].src_instance_infos = policy_call.src_instance_infos
            /\ policy_ret[1].dst_instance_infos = policy_call.dst_instance_infos

\* a Balanced call on two sources and two destinations, neither list in
\* sorted order, that returned the first candidate pair alone
C24_Witness ==
    LET src == policy_call.src_instance_infos
        dst == policy_call.dst_instance_infos
    IN  /\ policy_ret # <<>>
        /\ policy_call.policy = "balanced"
        /\ Len(src) = 2
        /\ Len(dst) = 2
        /\ MostLoaded(src, 1) = src[2].instance_id
        /\ LeastLoaded(dst, 1) = dst[2].instance_id
        /\ policy_ret[1].pairs = <<CandidatePairs[1]>>

==========================================================================
